---- MODULE Spec2Model ----
(***************************************************************************)
(* A model of saltant-py: the generic resource manager (list / get /       *)
(* create / put / patch over HTTP), the task-instance managers (clone,     *)
(* terminate, their *_many fan-outs), the wait_until_finished polling      *)
(* loop, and the construction of the Client.                               *)
(*                                                                         *)
(* Text (URLs, query strings, error messages) is a sequence of string      *)
(* tokens; str.format is modelled by substituting placeholder tokens.      *)
(* One behaviour of the model is one call of one manager method: the       *)
(* server's answers are the nondeterministic inputs of each step.          *)
(***************************************************************************)
EXTENDS Integers, Sequences, FiniteSets, TLC

(***************************************************************************)
(* Bounds of the model.                                                    *)
(***************************************************************************)
\* Most fetches one wait_until_finished call is followed through.
MaxFetches == 3
\* Longest uuid list handed to clone_many / terminate_many.
MaxUuids == 2
\* Most elements of a list response's results array.
MaxResults == 2

(***************************************************************************)
(* saltant/constants.py                                                    *)
(***************************************************************************)
DEFAULT_TIMEOUT_SECONDS == 90
DEFAULT_TASK_INSTANCE_WAIT_REFRESH_PERIOD == 5
HTTP_200_OK == 200
HTTP_201_CREATED == 201
HTTP_202_ACCEPTED == 202

CREATED == "created"
PUBLISHED == "published"
RUNNING == "running"
SUCCESSFUL == "successful"
FAILED == "failed"
TERMINATED == "terminated"

\* A plausible slip: RUNNING listed among the finish statuses.
FinishStatusesWithRunning == {SUCCESSFUL, FAILED, TERMINATED, RUNNING}

TASK_INSTANCE_FINISH_STATUSES == {SUCCESSFUL, FAILED, TERMINATED}

(***************************************************************************)
(* Values the callers and the server supply.                               *)
(***************************************************************************)
\* Client.base_api_url, one token.
base_api_url == "https://saltant.example/api/"

\* UUIDs of task instances.
Uuids == {"uuid-a", "uuid-b"}

\* Refresh periods a caller passes to wait_until_finished.
RefreshPeriods == {1, DEFAULT_TASK_INSTANCE_WAIT_REFRESH_PERIOD}

\* Every value the server may put in an instance's state field: the six
\* documented ones and one the client does not know.
ServerStates == {CREATED, PUBLISHED, RUNNING, SUCCESSFUL, FAILED, TERMINATED,
                 "unknown"}

\* Status codes the server answers with.
StatusCodes == {200, 201, 202, 204, 400, 404}

\* Raw body texts of answers that carry no resource.
ErrorTexts == {"{\"detail\": \"Not found.\"}", "Server Error (500)"}

(***************************************************************************)
(* The manager classes and their class attributes.                         *)
(***************************************************************************)
TaskInstanceManagers == {"container_task_instances", "executable_task_instances"}

TaskTypeManagers == {"container_task_types", "executable_task_types"}

Managers == TaskInstanceManagers \cup TaskTypeManagers
              \cup {"task_queues", "task_whitelists", "users"}

\* A str.format placeholder token.
IsPlaceholder(tok) == tok \in {"{id}", "{uuid}"}

list_url(m) ==
  CASE m = "container_task_instances" -> <<"containertaskinstances/">>
    [] m = "executable_task_instances" -> <<"executabletaskinstances/">>
    [] m = "container_task_types" -> <<"containertasktypes/">>
    [] m = "executable_task_types" -> <<"executabletasktypes/">>
    [] m = "task_queues" -> <<"taskqueues/">>
    [] m = "task_whitelists" -> <<"taskwhitelists/">>
    [] m = "users" -> <<"users/">>

detail_url(m) ==
  CASE m = "container_task_instances" -> <<"containertaskinstances/", "{id}", "/">>
    [] m = "executable_task_instances" -> <<"executabletaskinstances/", "{uuid}", "/">>
    [] m = "container_task_types" -> <<"containertasktypes/", "{id}", "/">>
    [] m = "executable_task_types" -> <<"executabletasktypes/", "{id}", "/">>
    [] m = "task_queues" -> <<"taskqueues/", "{id}", "/">>
    [] m = "task_whitelists" -> <<"taskwhitelists/", "{id}", "/">>
    [] m = "users" -> <<"users/", "{id}", "/">>

\* ExecutableTaskInstanceManager sets no clone_url: it inherits the base
\* class attribute "NotImplemented".
clone_url(m) ==
  IF m = "container_task_instances"
  THEN <<"containertaskinstances/", "{id}", "/clone/">>
  ELSE <<"NotImplemented">>

\* ExecutableTaskInstanceManager sets no terminate_url either.
terminate_url(m) ==
  IF m = "container_task_instances"
  THEN <<"containertaskinstances/", "{id}", "/terminate/">>
  ELSE <<"NotImplemented">>

\* The model class attribute; ExecutableTaskInstanceManager sets none and
\* inherits BaseTaskInstance.
model(m) ==
  CASE m = "container_task_instances" -> "ContainerTaskInstance"
    [] m = "executable_task_instances" -> "BaseTaskInstance"
    [] m = "container_task_types" -> "ContainerTaskType"
    [] m = "executable_task_types" -> "ExecutableTaskType"
    [] m = "task_queues" -> "TaskQueue"
    [] m = "task_whitelists" -> "TaskWhitelist"
    [] m = "users" -> "User"

(***************************************************************************)
(* Text helpers.                                                           *)
(***************************************************************************)
\* template.format(key=val): every placeholder must be the supplied key,
\* otherwise Python raises KeyError.
FormatOk(template, key) ==
  \A i \in 1..Len(template) :
    IsPlaceholder(template[i]) => template[i] = key

Format(template, key, val) ==
  [i \in 1..Len(template) |->
     IF template[i] = key THEN val ELSE template[i]]

\* part occurs in text as a run of consecutive tokens.
Contains(text, part) ==
  \E i \in 0..(Len(text) - Len(part)) :
    \A j \in 1..Len(part) : text[i + j] = part[j]

(***************************************************************************)
(* Errors, requests, events.                                               *)
(***************************************************************************)
NoError == [kind |-> "none", msg |-> <<>>]

Request(method, url, data) ==
  [kind |-> "request", method |-> method, url |-> url, data |-> data,
   period |-> 0]

Sleep(period) ==
  [kind |-> "sleep", method |-> "none", url |-> <<>>, data |-> <<>>,
   period |-> period]

\* What one manager method call did: the requests it sent, the exception it
\* raised (NoError if none) and the models it returned.
Outcome(events, err, val) == [events |-> events, err |-> err, val |-> val]

(***************************************************************************)
(* JSON values of the wire and their Python counterparts.                  *)
(***************************************************************************)
JsonNull == [json |-> "null", v |-> ""]

JsonStr(s) == [json |-> "string", v |-> s]

\* dateutil.parser.parse: a wire string becomes a datetime object.
DateutilParse(x) == [json |-> "datetime", v |-> x.v]

\* Python truthiness of a JSON value: None and "" are falsy.
Truthy(x) == x.json # "null" /\ x.v # ""

\* The body of a task-instance answer naming uuid in state st.  The finish
\* timestamp is null until the state is a finish status.
InstanceData(uuid, st) ==
  [uuid |-> uuid, state |-> st, name |-> "job", user |-> "alice",
   task_queue |-> 1, task_type |-> 1, arguments |-> "{}",
   datetime_created |-> JsonStr("2018-07-01T10:00:00Z"),
   datetime_finished |->
     IF st \in {SUCCESSFUL, FAILED, TERMINATED}
     THEN JsonStr("2018-07-01T11:00:00Z") ELSE JsonNull]

\* One HTTP answer: status code, raw text, and the text parsed as JSON.
Response(status, text, json) == [status |-> status, text |-> text, json |-> json]

\* The answers the server may give to a request for one task instance:
\* any status code; a resource body names the instance in any state.
InstanceResponses(uuid) ==
  {Response(sc, "instance-json", InstanceData(uuid, st)) :
     sc \in {200}, st \in ServerStates}
  \cup {Response(sc, "instance-json", InstanceData(uuid, st)) :
     sc \in {201, 202}, st \in {CREATED, TERMINATED}}
  \cup {Response(sc, t, InstanceData(uuid, "unknown")) :
     sc \in {204, 400, 404}, t \in ErrorTexts}

(***************************************************************************)
(* saltant/models/resource.py                                              *)
(***************************************************************************)
\* The parameters of validate_request_success, all required.
ValidateParams ==
  {"response_text", "request_url", "status_code", "expected_status_code"}

\* A plausible slip: the message leaves the response body out.
BadRequestMessageNoBody(kw) ==
  <<"Request to ">> \o kw.request_url
    \o <<" failed with status ", ToString(kw.status_code)>>

\* The message of the BadHttpRequestError.
BadRequestMessage(kw) ==
  <<"Request to ">> \o kw.request_url
    \o <<" failed with status ", ToString(kw.status_code),
         ":\nThe reponse from the request was as follows:\n\n",
         kw.response_text>>

\* ModelManager.validate_request_success, called with the keyword arguments
\* kw (a record).  Python binds the arguments before the body runs: a call
\* that leaves a parameter out raises TypeError whatever the status.  The
\* comparison is an assert statement whose AssertionError is caught: the
\* model is of an interpreter run without -O, where assert statements run.
validate_request_success(kw) ==
  IF DOMAIN kw # ValidateParams
  THEN [kind |-> "TypeError",
        msg |-> <<"validate_request_success() missing required argument">>]
  ELSE IF kw.status_code = kw.expected_status_code
  THEN NoError
  ELSE [kind |-> "BadHttpRequestError", msg |-> BadRequestMessage(kw)]

\* A plausible slip: the model is built without the manager.
response_data_to_model_instance_without_manager(m, data) ==
  [class |-> model(m), manager |-> "none", attrs |-> data]

\* ModelManager.response_data_to_model_instance: the manager is added to
\* the data and the manager's model class is instantiated from it.
ModelManager_response_data_to_model_instance(m, data) ==
  [class |-> model(m), manager |-> m, attrs |-> data]

\* A plausible slip: datetime_finished is parsed whether null or not.
response_data_to_model_instance_parsing_null(m, data) ==
  ModelManager_response_data_to_model_instance(
    m, [data EXCEPT !.datetime_created = DateutilParse(@),
                    !.datetime_finished = DateutilParse(@)])

\* BaseTaskInstanceManager.response_data_to_model_instance.
BaseTaskInstanceManager_response_data_to_model_instance(m, data) ==
  LET created == [data EXCEPT !.datetime_created = DateutilParse(@)]
      finished == IF Truthy(data.datetime_finished)
                  THEN [created EXCEPT !.datetime_finished = DateutilParse(@)]
                  ELSE created
  IN  ModelManager_response_data_to_model_instance(m, finished)

\* BaseTaskTypeManager.response_data_to_model_instance.
BaseTaskTypeManager_response_data_to_model_instance(m, data) ==
  ModelManager_response_data_to_model_instance(
    m, [data EXCEPT !.datetime_created = DateutilParse(@)])

\* Method resolution of response_data_to_model_instance.
response_data_to_model_instance(m, data) ==
  IF m \in TaskInstanceManagers
  THEN BaseTaskInstanceManager_response_data_to_model_instance(m, data)
  ELSE IF m \in TaskTypeManagers
  THEN BaseTaskTypeManager_response_data_to_model_instance(m, data)
  ELSE ModelManager_response_data_to_model_instance(m, data)

\* ModelManager.response_data_to_model_instances_list.
response_data_to_model_instances_list(m, data) ==
  [i \in 1..Len(data.results) |->
     response_data_to_model_instance(m, data.results[i])]

\* The exception of a str.format call that lacks a placeholder's key.
KeyErrorOutcome == Outcome(<<>>, [kind |-> "KeyError", msg |-> <<>>], <<>>)

\* One request whose answer resp is validated against the expected status
\* and, on success, turned into one model.
SingleModelRequest(m, method, url, data, expected, resp) ==
  LET err == validate_request_success(
               [response_text |-> resp.text, request_url |-> url,
                status_code |-> resp.status, expected_status_code |-> expected])
  IN  Outcome(<<Request(method, url, data)>>, err,
              IF err = NoError
              THEN <<response_data_to_model_instance(m, resp.json)>>
              ELSE <<>>)

\* ModelManager.get(id), answered by resp.
ModelManager_get(m, id, resp) ==
  IF ~FormatOk(detail_url(m), "{id}")
  THEN KeyErrorOutcome
  ELSE SingleModelRequest(
         m, "GET", <<base_api_url>> \o Format(detail_url(m), "{id}", id),
         <<>>, HTTP_200_OK, resp)

(***************************************************************************)
(* saltant/models/base_task_instance.py, executable_task_instance.py       *)
(***************************************************************************)
\* BaseTaskInstanceManager.get(uuid): the parent's get with id = uuid.
BaseTaskInstanceManager_get(m, uuid, resp) == ModelManager_get(m, uuid, resp)

\* ExecutableTaskInstanceManager.get(uuid): its own request, then a call of
\* validate_request_success that passes no response_text.
ExecutableTaskInstanceManager_get(m, uuid, resp) ==
  IF ~FormatOk(detail_url(m), "{uuid}")
  THEN KeyErrorOutcome
  ELSE
    LET url == <<base_api_url>> \o Format(detail_url(m), "{uuid}", uuid)
        err == validate_request_success(
                 [request_url |-> url, status_code |-> resp.status,
                  expected_status_code |-> HTTP_200_OK])
    IN  Outcome(<<Request("GET", url, <<>>)>>,
                IF err # NoError THEN err
                ELSE [kind |-> "TypeError",
                      msg |-> <<"__init__() missing required argument: 'manager'">>],
                <<>>)

\* self.get(uuid) on a task-instance manager.
TaskInstance_get(m, uuid, resp) ==
  IF m = "executable_task_instances"
  THEN ExecutableTaskInstanceManager_get(m, uuid, resp)
  ELSE BaseTaskInstanceManager_get(m, uuid, resp)

(***************************************************************************)
(* Python values handed to the managers: a type tag and the value's text   *)
(* as tokens (the elements of a list, the key and value tokens of a dict). *)
(***************************************************************************)
PyNone == [py |-> "NoneType", v |-> <<"None">>]

PyStr(s) == [py |-> "str", v |-> <<s>>]

PyInt(n) == [py |-> "int", v |-> <<ToString(n)>>]

PyBool(b) == [py |-> "bool", v |-> <<IF b THEN "True" ELSE "False">>]

\* A list of strings.
PyList(elems) == [py |-> "list", v |-> elems]

\* A list of integers (ids).
PyIntList(elems) == [py |-> "intlist", v |-> elems]

\* A dict of strings to strings, as <<k1, v1, k2, v2, ...>>.
PyDict(kvs) == [py |-> "dict", v |-> kvs]

\* The tokens of seqs[1], sep, seqs[2], sep, ...
RECURSIVE Join(_, _)
Join(seqs, sep) ==
  IF seqs = <<>> THEN <<>>
  ELSE IF Len(seqs) = 1 THEN seqs[1]
  ELSE seqs[1] \o sep \o Join(Tail(seqs), sep)

\* str(x), the text '{val}'.format(val=x) inserts.
PyStrOf(x) ==
  IF x.py = "intlist"
  THEN <<"[">> \o Join([i \in 1..Len(x.v) |-> <<x.v[i]>>], <<", ">>) \o <<"]">>
  ELSE x.v

\* json.dumps(x) of a list of strings or a dict of strings: a str.
json_dumps(x) ==
  IF x.py = "NoneType"
  THEN [py |-> "str", v |-> <<"null">>]
  ELSE IF x.py = "list"
  THEN [py |-> "str",
        v |-> <<"[">>
                \o Join([i \in 1..Len(x.v) |-> <<"\"", x.v[i], "\"">>], <<", ">>)
                \o <<"]">>]
  ELSE [py |-> "str",
        v |-> <<"{">>
                \o Join([i \in 1..(Len(x.v) \div 2) |->
                           <<"\"", x.v[2 * i - 1], "\": \"", x.v[2 * i], "\"">>],
                        <<", ">>)
                \o <<"}">>]

\* One item of a dict: form data and query filters are insertion-ordered
\* dicts, modelled as sequences of items with distinct keys.
Item(k, val) == [k |-> k, val |-> val]

Keys(dict) == {dict[i].k : i \in 1..Len(dict)}

\* dict[key] = val: an existing key keeps its place, a new one is appended.
DictSet(dict, k, val) ==
  IF k \in Keys(dict)
  THEN [i \in 1..Len(dict) |-> IF dict[i].k = k THEN Item(k, val) ELSE dict[i]]
  ELSE Append(dict, Item(k, val))

\* dict.update(other).
RECURSIVE DictUpdate(_, _)
DictUpdate(dict, other) ==
  IF other = <<>> THEN dict
  ELSE DictUpdate(DictSet(dict, other[1].k, other[1].val), Tail(other))

(***************************************************************************)
(* What the server holds and answers for the other resource families.      *)
(***************************************************************************)
\* The body of an answer naming one task type, queue, whitelist or user.
ResourceData(m, id) ==
  IF m \in TaskTypeManagers
  THEN [id |-> id, name |-> "echo-test", description |-> "", user |-> "alice",
        command_to_run |-> "echo hello",
        datetime_created |-> JsonStr("2018-07-01T10:00:00Z")]
  ELSE IF m = "users"
  THEN [username |-> id, email |-> "alice@example.org"]
  ELSE [id |-> id, user |-> "alice", name |-> "default", description |-> ""]

\* The answers the server may give to a request for one resource of m.
ResourceResponses(m, id) ==
  IF m \in TaskInstanceManagers
  THEN InstanceResponses(id)
  ELSE {Response(sc, "resource-json", ResourceData(m, id)) :
          sc \in {200, 201, 202}}
       \cup {Response(sc, t, ResourceData(m, id)) :
               sc \in {204, 400, 404}, t \in ErrorTexts}

\* The elements a list answer's results array is made of.
ListItems(m) ==
  IF m \in TaskInstanceManagers
  THEN {InstanceData("uuid-a", RUNNING), InstanceData("uuid-b", SUCCESSFUL)}
  ELSE IF m = "users"
  THEN {ResourceData(m, "alice"), ResourceData(m, "bob")}
  ELSE {ResourceData(m, "1"), ResourceData(m, "2")}

\* The answers the server may give to a list request: with status 200 any
\* results array of at most MaxResults elements.
ListResponses(m) ==
  {Response(200, "list-json", [results |-> r]) :
     r \in UNION {[1..n -> ListItems(m)] : n \in 0..MaxResults}}
  \cup {Response(sc, "Server Error (500)",
                 [results |-> <<CHOOSE x \in ListItems(m) : TRUE>>]) :
          sc \in {201, 202, 204, 400, 404}}

(***************************************************************************)
(* ModelManager.list                                                       *)
(***************************************************************************)
\* The filters argument: None, or a dict.
FiltersNone == [none |-> TRUE, items |-> <<>>]

FiltersDict(items) == [none |-> FALSE, items |-> items]

\* 2^63 - 1, the page_size list() asks for.
MaxPageSize == [py |-> "int", v |-> <<"9223372036854775807">>]

\* A plausible slip: the page parameters are never added.
WithPageParametersForgotten(filters) ==
  IF filters.none \/ filters.items = <<>> THEN <<>> ELSE filters.items

\* A plausible slip: the two parameters are added together, and only when
\* the caller gave neither.
WithPageParameters_jointly(filters) ==
  LET f0 == IF filters.none \/ filters.items = <<>> THEN <<>> ELSE filters.items
  IN  IF "page" \notin Keys(f0) /\ "page_size" \notin Keys(f0)
      THEN DictSet(DictSet(f0, "page", PyInt(1)), "page_size", MaxPageSize)
      ELSE f0

\* The filters after list() added page and page_size where absent.
WithPageParameters(filters) ==
  LET f0 == IF filters.none \/ filters.items = <<>> THEN <<>> ELSE filters.items
      f1 == IF "page" \notin Keys(f0) THEN DictSet(f0, "page", PyInt(1)) ELSE f0
  IN  IF "page_size" \notin Keys(f1)
      THEN DictSet(f1, "page_size", MaxPageSize) ELSE f1

\* The query string: '?' or '&', then '{param}={val}', per filter.
QueryFilterSubUrl(f) ==
  Join([i \in 1..Len(f) |->
          <<IF i = 1 THEN "?" ELSE "&", f[i].k, "=">> \o PyStrOf(f[i].val)],
       <<>>)

\* ModelManager.list(filters), answered by resp.
ModelManager_list(m, filters, resp) ==
  LET url == <<base_api_url>> \o list_url(m)
               \o QueryFilterSubUrl(WithPageParameters(filters))
      err == validate_request_success(
               [response_text |-> resp.text, request_url |-> url,
                status_code |-> resp.status,
                expected_status_code |-> HTTP_200_OK])
  IN  Outcome(<<Request("GET", url, <<>>)>>, err,
              IF err = NoError
              THEN response_data_to_model_instances_list(m, resp.json)
              ELSE <<>>)

(***************************************************************************)
(* get(id=None, name=None) of the task-type, task-queue and task-whitelist *)
(* managers; UserManager.get                                               *)
(***************************************************************************)
\* A plausible slip: only "neither given" is refused; with both given the
\* id is used.
IdOrName_get_prefers_id(m, id, name, resp) ==
  IF id = PyNone /\ name = PyNone
  THEN Outcome(<<>>,
               [kind |-> "ValueError",
                msg |-> <<"Either id or name must be set (but not both!)">>],
               <<>>)
  ELSE IF id # PyNone
  THEN ModelManager_get(m, id.v[1], resp)
  ELSE LET o == ModelManager_list(
                  m, FiltersDict(<<Item("name", name)>>), resp)
       IN  IF o.err # NoError THEN o
           ELSE IF o.val = <<>>
           THEN Outcome(o.events,
                        [kind |-> "IndexError",
                         msg |-> <<"list index out of range">>],
                        <<>>)
           ELSE Outcome(o.events, NoError, <<o.val[1]>>)

\* A plausible slip: the last match is taken, not the first.
IdOrName_get_last_match(m, id, name, resp) ==
  IF (id = PyNone) = (name = PyNone)
  THEN Outcome(<<>>,
               [kind |-> "ValueError",
                msg |-> <<"Either id or name must be set (but not both!)">>],
               <<>>)
  ELSE IF id # PyNone
  THEN ModelManager_get(m, id.v[1], resp)
  ELSE LET o == ModelManager_list(
                  m, FiltersDict(<<Item("name", name)>>), resp)
       IN  IF o.err # NoError THEN o
           ELSE IF o.val = <<>>
           THEN Outcome(o.events,
                        [kind |-> "IndexError",
                         msg |-> <<"list index out of range">>],
                        <<>>)
           ELSE Outcome(o.events, NoError, <<o.val[Len(o.val)]>>)

\* BaseTaskTypeManager.get / TaskQueueManager.get / TaskWhitelistManager.get:
\* the arguments are checked with an xor; an id goes to the parent's get, a
\* name to list(filters={"name": name})[0].
IdOrName_get(m, id, name, resp) ==
  IF (id = PyNone) = (name = PyNone)
  THEN Outcome(<<>>,
               [kind |-> "ValueError",
                msg |-> <<"Either id or name must be set (but not both!)">>],
               <<>>)
  ELSE IF id # PyNone
  THEN ModelManager_get(m, id.v[1], resp)
  ELSE LET o == ModelManager_list(
                  m, FiltersDict(<<Item("name", name)>>), resp)
       IN  IF o.err # NoError THEN o
           ELSE IF o.val = <<>>
           THEN Outcome(o.events,
                        [kind |-> "IndexError",
                         msg |-> <<"list index out of range">>],
                        <<>>)
           ELSE Outcome(o.events, NoError, <<o.val[1]>>)

\* UserManager.get(username).
UserManager_get(m, username, resp) == ModelManager_get(m, username, resp)

(***************************************************************************)
(* create                                                                  *)
(***************************************************************************)
\* No dict passed (None), or the dict passed, for an optional dict argument.
NoDict == [none |-> TRUE, items |-> <<>>]

\* POST of data to the list URL, expecting 201.
PostToListUrl(m, data, resp) ==
  SingleModelRequest(m, "POST", <<base_api_url>> \o list_url(m), data,
                     HTTP_201_CREATED, resp)

\* A plausible slip: the arguments dict is posted as it is, None included.
BaseTaskInstanceManager_create_raw_arguments(m, a, resp) ==
  PostToListUrl(
    m,
    <<Item("name", a.name),
      Item("arguments", a.arguments),
      Item("task_type", a.task_type_id),
      Item("task_queue", a.task_queue_id)>>,
    resp)

\* BaseTaskInstanceManager.create(task_type_id, task_queue_id, arguments,
\* name).
BaseTaskInstanceManager_create(m, a, resp) ==
  LET arguments == IF a.arguments = PyNone THEN PyDict(<<>>) ELSE a.arguments
  IN  PostToListUrl(
        m,
        <<Item("name", a.name),
          Item("arguments", json_dumps(arguments)),
          Item("task_type", a.task_type_id),
          Item("task_queue", a.task_queue_id)>>,
        resp)

\* The six fields create and put of BaseTaskTypeManager send.
BaseTaskTypeData(a) ==
  <<Item("name", a.name),
    Item("description", a.description),
    Item("command_to_run", a.command_to_run),
    Item("environment_variables", json_dumps(a.environment_variables)),
    Item("required_arguments", json_dumps(a.required_arguments)),
    Item("required_arguments_default_values",
         json_dumps(a.required_arguments_default_values))>>

\* A plausible slip: an argument left None is encoded as it is ("null").
BaseTaskTypeManager_create_sending_null(m, a, resp) ==
  LET data == BaseTaskTypeData(a)
  IN  PostToListUrl(
        m,
        IF a.extra_data.none THEN data ELSE DictUpdate(data, a.extra_data.items),
        resp)

\* BaseTaskTypeManager.create.
BaseTaskTypeManager_create(m, a, resp) ==
  LET b == [a EXCEPT
              !.environment_variables = IF @ = PyNone THEN PyList(<<>>) ELSE @,
              !.required_arguments = IF @ = PyNone THEN PyList(<<>>) ELSE @,
              !.required_arguments_default_values =
                 IF @ = PyNone THEN PyDict(<<>>) ELSE @]
      data == BaseTaskTypeData(b)
  IN  PostToListUrl(
        m,
        IF a.extra_data.none THEN data ELSE DictUpdate(data, a.extra_data.items),
        resp)

\* The fields ContainerTaskTypeManager adds on create.
ContainerExtraPost(a) ==
  <<Item("container_image", a.container_image),
    Item("container_type", a.container_type),
    Item("logs_path", a.logs_path),
    Item("results_path", a.results_path)>>

\* ContainerTaskTypeManager.create.
ContainerTaskTypeManager_create(m, a, resp) ==
  LET extra == IF a.extra_data.none THEN <<>> ELSE a.extra_data.items
  IN  BaseTaskTypeManager_create(
        m,
        [a EXCEPT !.extra_data =
                    FiltersDict(DictUpdate(extra, ContainerExtraPost(a)))],
        resp)

\* ExecutableTaskTypeManager.create.
ExecutableTaskTypeManager_create(m, a, resp) ==
  LET extra == IF a.extra_data.none THEN <<>> ELSE a.extra_data.items
  IN  BaseTaskTypeManager_create(
        m,
        [a EXCEPT !.extra_data =
                    FiltersDict(DictUpdate(
                      extra, <<Item("json_file_option", a.json_file_option)>>))],
        resp)

\* The eight fields create and put of TaskQueueManager send; the whitelists
\* list goes into the form data as it is.
TaskQueueData(a) ==
  <<Item("name", a.name),
    Item("description", a.description),
    Item("private", a.private),
    Item("runs_executable_tasks", a.runs_executable_tasks),
    Item("runs_docker_container_tasks", a.runs_docker_container_tasks),
    Item("runs_singularity_container_tasks",
         a.runs_singularity_container_tasks),
    Item("active", a.active),
    Item("whitelists", a.whitelists)>>

\* TaskQueueManager.create.
TaskQueueManager_create(m, a, resp) ==
  PostToListUrl(
    m,
    TaskQueueData([a EXCEPT !.whitelists =
                              IF @ = PyNone THEN PyIntList(<<>>) ELSE @]),
    resp)

\* The four fields create and put of TaskWhitelistManager send.
TaskWhitelistData(a) ==
  <<Item("name", a.name),
    Item("description", a.description),
    Item("whitelisted_container_task_types",
         a.whitelisted_container_task_types),
    Item("whitelisted_executable_task_types",
         a.whitelisted_executable_task_types)>>

\* TaskWhitelistManager.create.
TaskWhitelistManager_create(m, a, resp) ==
  PostToListUrl(
    m,
    TaskWhitelistData(
      [a EXCEPT
         !.whitelisted_container_task_types =
            IF @ = PyNone THEN PyIntList(<<>>) ELSE @,
         !.whitelisted_executable_task_types =
            IF @ = PyNone THEN PyIntList(<<>>) ELSE @]),
    resp)

\* create on manager m (method resolution).
Manager_create(m, a, resp) ==
  CASE m \in TaskInstanceManagers -> BaseTaskInstanceManager_create(m, a, resp)
    [] m = "container_task_types" -> ContainerTaskTypeManager_create(m, a, resp)
    [] m = "executable_task_types" -> ExecutableTaskTypeManager_create(m, a, resp)
    [] m = "task_queues" -> TaskQueueManager_create(m, a, resp)
    [] m = "task_whitelists" -> TaskWhitelistManager_create(m, a, resp)

(***************************************************************************)
(* put and patch                                                           *)
(***************************************************************************)
\* self._client.base_api_url + self.detail_url.format(id=id), for the
\* managers whose detail_url names {id}.
DetailUrlOf(m, id) ==
  <<base_api_url>> \o Format(detail_url(m), "{id}", id.v[1])

\* PUT or PATCH of data to the detail URL of id, expecting 200.
UpdateAtDetailUrl(m, method, id, data, resp) ==
  SingleModelRequest(m, method, DetailUrlOf(m, id), data, HTTP_200_OK, resp)

\* BaseTaskTypeManager.put.
BaseTaskTypeManager_put(m, a, resp) ==
  LET data == BaseTaskTypeData(a)
  IN  UpdateAtDetailUrl(
        m, "PUT", a.id,
        IF a.extra_data.none THEN data ELSE DictUpdate(data, a.extra_data.items),
        resp)

\* The fields ContainerTaskTypeManager adds on put.
ContainerExtraPut(a) ==
  <<Item("logs_path", a.logs_path),
    Item("results_path", a.results_path),
    Item("container_image", a.container_image),
    Item("container_type", a.container_type)>>

\* ContainerTaskTypeManager.put.
ContainerTaskTypeManager_put(m, a, resp) ==
  LET extra == IF a.extra_data.none THEN <<>> ELSE a.extra_data.items
  IN  BaseTaskTypeManager_put(
        m,
        [a EXCEPT !.extra_data =
                    FiltersDict(DictUpdate(extra, ContainerExtraPut(a)))],
        resp)

\* ExecutableTaskTypeManager.put.
ExecutableTaskTypeManager_put(m, a, resp) ==
  LET extra == IF a.extra_data.none THEN <<>> ELSE a.extra_data.items
  IN  BaseTaskTypeManager_put(
        m,
        [a EXCEPT !.extra_data =
                    FiltersDict(DictUpdate(
                      extra, <<Item("json_file_option", a.json_file_option)>>))],
        resp)

\* TaskQueueManager.put.
TaskQueueManager_put(m, a, resp) ==
  UpdateAtDetailUrl(m, "PUT", a.id, TaskQueueData(a), resp)

\* TaskWhitelistManager.put.
TaskWhitelistManager_put(m, a, resp) ==
  UpdateAtDetailUrl(m, "PUT", a.id, TaskWhitelistData(a), resp)

\* put on manager m (method resolution).
Manager_put(m, a, resp) ==
  CASE m = "container_task_types" -> ContainerTaskTypeManager_put(m, a, resp)
    [] m = "executable_task_types" -> ExecutableTaskTypeManager_put(m, a, resp)
    [] m = "task_queues" -> TaskQueueManager_put(m, a, resp)
    [] m = "task_whitelists" -> TaskWhitelistManager_put(m, a, resp)

\* The items of data whose value is not None: patch's chain of
\* A plausible slip: patch sends every field, None or not.
NotNoneItems_keeping_none(data) == data

\* "if x is not None: data_to_patch[...] = x".
RECURSIVE NotNoneItems(_)
NotNoneItems(data) ==
  IF data = <<>> THEN <<>>
  ELSE IF data[1].val = PyNone THEN NotNoneItems(Tail(data))
  ELSE <<data[1]>> \o NotNoneItems(Tail(data))

\* TaskQueueManager.patch.
TaskQueueManager_patch(m, a, resp) ==
  UpdateAtDetailUrl(m, "PATCH", a.id, NotNoneItems(TaskQueueData(a)), resp)

\* TaskWhitelistManager.patch.
TaskWhitelistManager_patch(m, a, resp) ==
  UpdateAtDetailUrl(m, "PATCH", a.id, NotNoneItems(TaskWhitelistData(a)), resp)

\* patch on manager m (method resolution).
Manager_patch(m, a, resp) ==
  IF m = "task_queues"
  THEN TaskQueueManager_patch(m, a, resp)
  ELSE TaskWhitelistManager_patch(m, a, resp)

(***************************************************************************)
(* The arguments callers pass.                                             *)
(***************************************************************************)
Ids == {PyInt(1), PyInt(2)}

\* Query filters handed to list(): None, the empty dict, and dicts with and
\* without the page parameters.
ListFilters ==
  {FiltersNone, FiltersDict(<<>>),
   FiltersDict(<<Item("name__startswith", PyStr("azure"))>>),
   FiltersDict(<<Item("name", PyStr("echo-test")),
                 Item("user__in", PyIntList(<<"1", "2">>))>>),
   FiltersDict(<<Item("page", PyInt(2))>>),
   FiltersDict(<<Item("page_size", PyInt(10)),
                 Item("name", PyStr("echo-test"))>>),
   FiltersDict(<<Item("page", PyInt(3)), Item("page_size", PyInt(10))>>)}

\* Arguments of a task-type create or put: the optional list and dict
\* arguments left out (None) or given.
TaskTypeArgs(m) ==
  {[id |-> id, name |-> PyStr("echo-test"),
    command_to_run |-> PyStr("echo hello"), description |-> PyStr(""),
    environment_variables |-> o[1], required_arguments |-> o[2],
    required_arguments_default_values |-> o[3],
    container_image |-> PyStr("docker.io/library/alpine"),
    container_type |-> PyStr("docker"),
    logs_path |-> PyStr(""), results_path |-> PyStr(""),
    json_file_option |-> PyNone, extra_data |-> NoDict] :
     id \in {PyInt(1)},
     o \in {<<PyNone, PyNone, PyNone>>,
            <<PyList(<<"HOME">>), PyList(<<"n">>), PyDict(<<"n", "1">>)>>}}

\* Arguments of a task-instance create.
TaskInstanceArgs ==
  {[task_type_id |-> PyInt(1), task_queue_id |-> PyInt(2),
    arguments |-> args, name |-> PyStr("")] :
     args \in {PyNone, PyDict(<<"n", "1">>)}}

\* Arguments of a task-queue create, put or patch: everything given, only
\* some fields given, nothing given.
TaskQueueArgs ==
  {[id |-> PyInt(1), name |-> o[1], description |-> o[2], private |-> o[3],
    runs_executable_tasks |-> o[3], runs_docker_container_tasks |-> o[3],
    runs_singularity_container_tasks |-> o[3], active |-> o[4],
    whitelists |-> o[5]] :
     o \in {<<PyStr("default"), PyStr(""), PyBool(FALSE), PyBool(TRUE),
              PyIntList(<<"1", "2">>)>>,
            <<PyStr("default"), PyNone, PyNone, PyBool(TRUE), PyNone>>,
            <<PyNone, PyNone, PyNone, PyNone, PyNone>>}}

\* Arguments of a task-whitelist create, put or patch.
TaskWhitelistArgs ==
  {[id |-> PyInt(1), name |-> o[1], description |-> o[2],
    whitelisted_container_task_types |-> o[3],
    whitelisted_executable_task_types |-> o[4]] :
     o \in {<<PyStr("trusted"), PyStr(""), PyIntList(<<"1">>),
              PyIntList(<<>>)>>,
            <<PyNone, PyStr("d"), PyNone, PyIntList(<<"2">>)>>,
            <<PyNone, PyNone, PyNone, PyNone>>}}

\* The arguments a caller may pass to create / put / patch of manager m.
ArgsOf(m) ==
  CASE m \in TaskInstanceManagers -> TaskInstanceArgs
    [] m \in TaskTypeManagers -> TaskTypeArgs(m)
    [] m = "task_queues" -> TaskQueueArgs
    [] m = "task_whitelists" -> TaskWhitelistArgs

\* The identifier a created resource is given by the server.
NewIdOf(m) == IF m \in TaskInstanceManagers THEN "uuid-c" ELSE "3"

(***************************************************************************)
(* State.                                                                  *)
(***************************************************************************)
VARIABLES
  pc,             \* where the call is: "idle", a loop position, "returned", "raised"
  call,           \* the method called, its manager and its arguments
  log,            \* the requests sent and the sleeps taken, in order
  responses,      \* the answers received, one per request sent
  task_instance,  \* wait_until_finished's local task_instance (<<>> if unbound)
  acc,            \* the list a *_many comprehension has built so far
  result,         \* the models returned to the caller
  error,          \* the exception raised to the caller, NoError if none
  self,           \* the model object a model method was called on (<<>> if none)
  caller_filters, \* the mapping object the caller handed to list() (NoObject if none)
  server,         \* the state the server holds for the task instance waited for
  environ,        \* os.environ, as far as from_env reads it
  client          \* the Client object: its attributes as far as set

vars ==
  <<pc, call, log, responses, task_instance, acc, result, error, self,
    caller_filters, server, environ, client>>

NoCall == [op |-> "none", mgr |-> "none"]

\* No mapping object handed over, no server state followed, the environment
\* without the two variables.
NoObject == [none |-> TRUE, items |-> <<>>]

NoServer == "none"

Unset == <<>>

NoEnviron == [SALTANT_API_URL |-> Unset, SALTANT_AUTH_TOKEN |-> Unset]

\* The managers Client.__init__ attaches, by attribute name.
AttachedManagers ==
  {"container_task_instances", "container_task_types",
   "executable_task_instances", "executable_task_types", "task_queues",
   "users"}

\* The session's headers after headers.update({'Authorization': 'Token ' +
\* auth_token}).
AuthorizationHeader(auth_token) == <<"Authorization", "Token ", auth_token>>

\* A Client object before __init__ has set anything, and after __init__
\* has run through.
NoClient ==
  [base_api_url |-> <<>>, headers |-> <<>>, timeout |-> <<>>, managers |-> {}]

ConstructedClient ==
  [base_api_url |-> <<base_api_url>>,
   headers |-> AuthorizationHeader("token-a"),
   timeout |-> <<DEFAULT_TIMEOUT_SECONDS>>,
   managers |-> AttachedManagers]

Init ==
  /\ pc = "idle"
  /\ call = NoCall
  /\ log = <<>>
  /\ responses = <<>>
  /\ task_instance = <<>>
  /\ acc = <<>>
  /\ result = <<>>
  /\ error = NoError
  /\ self = <<>>
  /\ caller_filters = NoObject
  /\ server = NoServer
  /\ environ = NoEnviron
  /\ client = ConstructedClient

\* The answers received for the requests an outcome sent.
Answers(o, resp) == IF o.events = <<>> THEN <<>> ELSE <<resp>>

(***************************************************************************)
(* BaseTaskInstanceManager.wait_until_finished                             *)
(***************************************************************************)
\* The while condition: task_instance.state not in the finish statuses.
WaitLoopContinues(ti) == ti.attrs.state \notin TASK_INSTANCE_FINISH_STATUSES

\* The state after task_instance = self.get(uuid) gave outcome o: an
\* exception leaves the call; otherwise the while condition is tested.
AfterFetch(o) ==
  IF o.err # NoError
  THEN /\ pc' = "raised"
       /\ error' = o.err
       /\ UNCHANGED <<task_instance, result>>
  ELSE /\ task_instance' = o.val
       /\ error' = NoError
       /\ IF WaitLoopContinues(o.val[1])
          THEN pc' = "wait_sleep" /\ UNCHANGED result
          ELSE pc' = "returned" /\ result' = o.val

\* The call and its first fetch.
wait_until_finished(m, uuid, refresh_period) ==
  /\ pc = "idle"
  /\ call' = [op |-> "wait_until_finished", mgr |-> m, uuid |-> uuid,
              refresh_period |-> refresh_period]
  /\ \E resp \in InstanceResponses(uuid) :
       LET o == TaskInstance_get(m, uuid, resp)
       IN  /\ log' = o.events
           /\ responses' = Answers(o, resp)
           /\ AfterFetch(o)
  /\ UNCHANGED <<self, caller_filters, server, environ, client>>
  /\ UNCHANGED <<acc>>

\* A plausible slip: the sleep grows with every round (a backoff).
wait_sleep_backoff ==
  /\ pc = "wait_sleep"
  /\ Len(responses) < MaxFetches
  /\ log' = Append(log, Sleep(call.refresh_period * Len(responses)))
  /\ pc' = "wait_fetch"
  /\ UNCHANGED <<self, caller_filters, server, environ, client>>
  /\ UNCHANGED <<call, responses, task_instance, acc, result, error>>

\* The loop body's time.sleep(refresh_period).  The model follows a call
\* through MaxFetches fetches.
wait_sleep ==
  /\ pc = "wait_sleep"
  /\ Len(responses) < MaxFetches
  /\ log' = Append(log, Sleep(call.refresh_period))
  /\ pc' = "wait_fetch"
  /\ UNCHANGED <<self, caller_filters, server, environ, client>>
  /\ UNCHANGED <<call, responses, task_instance, acc, result, error>>

\* The loop body's task_instance = self.get(uuid).
wait_fetch ==
  /\ pc = "wait_fetch"
  /\ \E resp \in InstanceResponses(call.uuid) :
       LET o == TaskInstance_get(call.mgr, call.uuid, resp)
       IN  /\ log' = log \o o.events
           /\ responses' = responses \o Answers(o, resp)
           /\ AfterFetch(o)
  /\ UNCHANGED <<self, caller_filters, server, environ, client>>
  /\ UNCHANGED <<call, acc>>

(***************************************************************************)
(* BaseTaskInstanceManager.clone, terminate and their *_many fan-outs      *)
(***************************************************************************)
\* The UUID the server gives the clone of an instance.
ClonedUuid(uuid) == IF uuid = "uuid-a" THEN "uuid-c" ELSE "uuid-d"

\* The uuid lists a caller hands to clone_many / terminate_many.
UuidLists ==
  UNION {[1..n -> Uuids] : n \in 0..MaxUuids}

\* BaseTaskInstanceManager.clone(uuid), answered by resp.
BaseTaskInstanceManager_clone(m, uuid, resp) ==
  IF ~FormatOk(clone_url(m), "{id}")
  THEN KeyErrorOutcome
  ELSE SingleModelRequest(
         m, "POST", <<base_api_url>> \o Format(clone_url(m), "{id}", uuid),
         <<>>, HTTP_201_CREATED, resp)

\* BaseTaskInstanceManager.terminate(uuid), answered by resp.
BaseTaskInstanceManager_terminate(m, uuid, resp) ==
  IF ~FormatOk(terminate_url(m), "{id}")
  THEN KeyErrorOutcome
  ELSE SingleModelRequest(
         m, "POST", <<base_api_url>> \o Format(terminate_url(m), "{id}", uuid),
         <<>>, HTTP_202_ACCEPTED, resp)

\* Entering [self.f(uuid) for uuid in uuids]: an empty list is returned at
\* once.
ManyEnter(op, m, uuids) ==
  /\ call' = [op |-> op, mgr |-> m, uuids |-> uuids]
  /\ pc' = IF uuids = <<>> THEN "returned" ELSE op
  /\ UNCHANGED <<self, caller_filters, server, environ, client>>
  /\ UNCHANGED <<log, responses, task_instance, acc, result, error>>

\* One round of the comprehension, its element call having outcome o and
\* answer resp: an exception leaves the call and drops the list built so
\* far; after the last element the list is returned.
ManyRound(o, resp) ==
  /\ log' = log \o o.events
  /\ responses' = responses \o Answers(o, resp)
  /\ IF o.err # NoError
     THEN /\ pc' = "raised"
          /\ error' = o.err
          /\ UNCHANGED <<acc, result>>
     ELSE /\ acc' = acc \o o.val
          /\ error' = NoError
          /\ IF Len(acc) + 1 = Len(call.uuids)
             THEN pc' = "returned" /\ result' = acc \o o.val
             ELSE UNCHANGED <<pc, result>>
  /\ UNCHANGED <<self, caller_filters, server, environ, client>>
  /\ UNCHANGED <<call, task_instance>>

\* A plausible slip: a failed element is skipped and the loop goes on.
ManyRoundBestEffort(o, resp) ==
  /\ log' = log \o o.events
  /\ responses' = responses \o Answers(o, resp)
  /\ acc' = acc \o o.val
  /\ error' = NoError
  /\ IF Len(responses) + 1 = Len(call.uuids)
     THEN pc' = "returned" /\ result' = acc \o o.val
     ELSE UNCHANGED <<pc, result>>
  /\ UNCHANGED <<self, caller_filters, server, environ, client>>
  /\ UNCHANGED <<call, task_instance>>

\* BaseTaskInstanceManager.clone_many(uuids).
clone_many(m, uuids) ==
  /\ pc = "idle"
  /\ ManyEnter("clone_many", m, uuids)

\* A plausible slip: clone_many carries on after a failed clone.
clone_many_next_best_effort ==
  /\ pc = "clone_many"
  /\ LET uuid == call.uuids[Len(responses) + 1]
     IN  \E resp \in InstanceResponses(ClonedUuid(uuid)) :
           ManyRoundBestEffort(
             BaseTaskInstanceManager_clone(call.mgr, uuid, resp), resp)

\* self.clone(uuid) for the next uuid of the list.
clone_many_next ==
  /\ pc = "clone_many"
  /\ LET uuid == call.uuids[Len(acc) + 1]
     IN  \E resp \in InstanceResponses(ClonedUuid(uuid)) :
           ManyRound(BaseTaskInstanceManager_clone(call.mgr, uuid, resp), resp)

\* BaseTaskInstanceManager.terminate_many(uuids).
terminate_many(m, uuids) ==
  /\ pc = "idle"
  /\ ManyEnter("terminate_many", m, uuids)

\* A plausible slip: terminate_many carries on after a refused terminate.
terminate_many_next_best_effort ==
  /\ pc = "terminate_many"
  /\ LET uuid == call.uuids[Len(responses) + 1]
     IN  \E resp \in InstanceResponses(uuid) :
           ManyRoundBestEffort(
             BaseTaskInstanceManager_terminate(call.mgr, uuid, resp), resp)

\* self.terminate(uuid) for the next uuid of the list.
terminate_many_next ==
  /\ pc = "terminate_many"
  /\ LET uuid == call.uuids[Len(acc) + 1]
     IN  \E resp \in InstanceResponses(uuid) :
           ManyRound(BaseTaskInstanceManager_terminate(call.mgr, uuid, resp),
                     resp)

(***************************************************************************)
(* The manager methods that send one request.                              *)
(***************************************************************************)
\* A call c whose method had outcome o on the answer resp: it raises the
\* outcome's exception or returns its models.
SingleCall(c, o, resp) ==
  /\ call' = c
  /\ log' = o.events
  /\ responses' = Answers(o, resp)
  /\ IF o.err # NoError
     THEN pc' = "raised" /\ error' = o.err /\ result' = <<>>
     ELSE pc' = "returned" /\ error' = NoError /\ result' = o.val
  /\ UNCHANGED <<self, caller_filters, server, environ, client>>
  /\ UNCHANGED <<task_instance, acc>>

\* get(uuid) on a task-instance manager.
get_instance(m, uuid) ==
  /\ pc = "idle"
  /\ \E resp \in InstanceResponses(uuid) :
       SingleCall([op |-> "get", mgr |-> m, uuid |-> uuid],
                  TaskInstance_get(m, uuid, resp), resp)

\* UserManager.get(username).
get_user(m, username) ==
  /\ pc = "idle"
  /\ \E resp \in ResourceResponses(m, username) :
       SingleCall([op |-> "get", mgr |-> m, username |-> username],
                  UserManager_get(m, username, resp), resp)

\* get(id=..., name=...) on a task-type, task-queue or task-whitelist
\* manager: answered with one resource (by id) or with a list (by name).
get_by_id_or_name(m, id, name) ==
  /\ pc = "idle"
  /\ \E resp \in (IF id # PyNone THEN ResourceResponses(m, id.v[1])
                  ELSE ListResponses(m)) :
       SingleCall([op |-> "get", mgr |-> m, id |-> id, name |-> name],
                  IdOrName_get(m, id, name, resp), resp)

\* The caller's mapping object after list(filters): "if not filters:
\* filters = {}" binds a fresh dict for None and for an empty mapping; any
\* other mapping is the object filters['page'] and filters['page_size'] are
\* assigned in.
CallerFiltersAfterList(filters) ==
  IF filters.none THEN NoObject
  ELSE IF filters.items = <<>> THEN filters
  ELSE FiltersDict(WithPageParameters(filters))

\* A plausible slip: list() works on a copy of the caller's mapping.
list_on_a_copy(m, filters) ==
  /\ pc = "idle"
  /\ call' = [op |-> "list", mgr |-> m, filters |-> filters]
  /\ \E resp \in ListResponses(m) :
       LET o == ModelManager_list(m, filters, resp)
       IN  /\ log' = o.events
           /\ responses' = Answers(o, resp)
           /\ IF o.err # NoError
              THEN pc' = "raised" /\ error' = o.err /\ result' = <<>>
              ELSE pc' = "returned" /\ error' = NoError /\ result' = o.val
  /\ caller_filters' = (IF filters.none THEN NoObject ELSE filters)
  /\ UNCHANGED <<self, server, environ, client>>
  /\ UNCHANGED <<task_instance, acc>>

\* list(filters) on any manager.
list(m, filters) ==
  /\ pc = "idle"
  /\ call' = [op |-> "list", mgr |-> m, filters |-> filters]
  /\ \E resp \in ListResponses(m) :
       LET o == ModelManager_list(m, filters, resp)
       IN  /\ log' = o.events
           /\ responses' = Answers(o, resp)
           /\ IF o.err # NoError
              THEN pc' = "raised" /\ error' = o.err /\ result' = <<>>
              ELSE pc' = "returned" /\ error' = NoError /\ result' = o.val
  /\ caller_filters' = CallerFiltersAfterList(filters)
  /\ UNCHANGED <<self, server, environ, client>>
  /\ UNCHANGED <<task_instance, acc>>

\* create(...) on a manager that has it.
create(m, a) ==
  /\ pc = "idle"
  /\ \E resp \in ResourceResponses(m, NewIdOf(m)) :
       SingleCall([op |-> "create", mgr |-> m, args |-> a],
                  Manager_create(m, a, resp), resp)

\* put(id, ...) on a manager that has it.
put(m, a) ==
  /\ pc = "idle"
  /\ \E resp \in ResourceResponses(m, a.id.v[1]) :
       SingleCall([op |-> "put", mgr |-> m, args |-> a],
                  Manager_put(m, a, resp), resp)

\* patch(id, ...) on the task-queue or task-whitelist manager.
patch(m, a) ==
  /\ pc = "idle"
  /\ \E resp \in ResourceResponses(m, a.id.v[1]) :
       SingleCall([op |-> "patch", mgr |-> m, args |-> a],
                  Manager_patch(m, a, resp), resp)

\* clone(uuid) on a task-instance manager.
clone(m, uuid) ==
  /\ pc = "idle"
  /\ \E resp \in InstanceResponses(ClonedUuid(uuid)) :
       SingleCall([op |-> "clone", mgr |-> m, uuid |-> uuid],
                  BaseTaskInstanceManager_clone(m, uuid, resp), resp)

\* terminate(uuid) on a task-instance manager.
terminate(m, uuid) ==
  /\ pc = "idle"
  /\ \E resp \in InstanceResponses(uuid) :
       SingleCall([op |-> "terminate", mgr |-> m, uuid |-> uuid],
                  BaseTaskInstanceManager_terminate(m, uuid, resp), resp)

(***************************************************************************)
(* sync() of the models                                                    *)
(***************************************************************************)
\* What names a model to its manager: uuid, username or id.
IdentifierOf(obj) ==
  IF "uuid" \in DOMAIN obj.attrs THEN obj.attrs.uuid
  ELSE IF "username" \in DOMAIN obj.attrs THEN obj.attrs.username
  ELSE obj.attrs.id

\* The ids, uuids or usernames of the resources of manager m.
IdentifiersOf(m) ==
  IF m \in TaskInstanceManagers THEN Uuids
  ELSE IF m = "users" THEN {"alice", "bob"}
  ELSE {"1", "2"}

\* The models a caller holds: those the manager built from the answer to a
\* create (status 201).
ModelsFromCreate(m) ==
  {response_data_to_model_instance(m, resp.json) :
     resp \in {r \in UNION {ResourceResponses(m, id) : id \in IdentifiersOf(m)} :
                 r.status = HTTP_201_CREATED}}

\* The models a caller holds: built from the answer to a create (201) or to
\* a get (200).
ModelsHeld(m) ==
  {response_data_to_model_instance(m, resp.json) :
     resp \in {r \in UNION {ResourceResponses(m, id) : id \in IdentifiersOf(m)} :
                 r.status \in {HTTP_200_OK, HTTP_201_CREATED}}}

\* self.manager.get(uuid=self.uuid) / get(id=self.id) /
\* get(username=self.username), answered by resp.
Model_sync_get(m, obj, resp) ==
  IF m \in TaskInstanceManagers
  THEN TaskInstance_get(m, obj.attrs.uuid, resp)
  ELSE IF m = "users"
  THEN UserManager_get(m, obj.attrs.username, resp)
  ELSE IdOrName_get(m, [py |-> "int", v |-> <<obj.attrs.id>>], PyNone, resp)

\* A plausible slip, and what the docstring says: the object sync() was
\* called on takes the fetched fields too.
sync_in_place(m, obj) ==
  /\ pc = "idle"
  /\ call' = [op |-> "sync", mgr |-> m, obj |-> obj]
  /\ \E resp \in ResourceResponses(m, IdentifierOf(obj)) :
       LET o == Model_sync_get(m, obj, resp)
       IN  /\ log' = o.events
           /\ responses' = Answers(o, resp)
           /\ IF o.err # NoError
              THEN pc' = "raised" /\ error' = o.err /\ result' = <<>>
                   /\ self' = obj
              ELSE pc' = "returned" /\ error' = NoError /\ result' = o.val
                   /\ self' = o.val[1]
  /\ UNCHANGED <<caller_filters, server, environ, client>>
  /\ UNCHANGED <<task_instance, acc>>

\* obj.sync(), obj a model of manager m: "self = self.manager.get(...)" binds
\* the method's local name self to the new model and returns it; the object
\* the method was called on is not written to.
sync(m, obj) ==
  /\ pc = "idle"
  /\ call' = [op |-> "sync", mgr |-> m, obj |-> obj]
  /\ \E resp \in ResourceResponses(m, IdentifierOf(obj)) :
       LET o == Model_sync_get(m, obj, resp)
       IN  /\ log' = o.events
           /\ responses' = Answers(o, resp)
           /\ IF o.err # NoError
              THEN pc' = "raised" /\ error' = o.err /\ result' = <<>>
              ELSE pc' = "returned" /\ error' = NoError /\ result' = o.val
  /\ self' = obj
  /\ UNCHANGED <<caller_filters, server, environ, client>>
  /\ UNCHANGED <<task_instance, acc>>

\* The managers with create, with put, with patch, with get(id, name).
CreateManagers == Managers \ {"users"}

PutManagers == TaskTypeManagers \cup {"task_queues", "task_whitelists"}

PatchManagers == {"task_queues", "task_whitelists"}

IdOrNameManagers == TaskTypeManagers \cup {"task_queues", "task_whitelists"}

(***************************************************************************)
(* The specification.                                                      *)
(***************************************************************************)
Next ==
  \/ \E m \in TaskInstanceManagers, uuid \in Uuids, p \in RefreshPeriods :
       wait_until_finished(m, uuid, p)
  \/ wait_sleep
  \/ wait_fetch
  \/ \E m \in TaskInstanceManagers, uuids \in UuidLists : clone_many(m, uuids)
  \/ clone_many_next
  \/ \E m \in TaskInstanceManagers, uuids \in UuidLists :
       terminate_many(m, uuids)
  \/ terminate_many_next
  \/ \E m \in TaskInstanceManagers, uuid \in Uuids : get_instance(m, uuid)
  \/ \E username \in {"alice", "bob"} : get_user("users", username)
  \/ \E m \in IdOrNameManagers, id \in Ids \cup {PyNone},
        name \in {PyStr("echo-test"), PyNone} :
       get_by_id_or_name(m, id, name)
  \/ \E m \in Managers, filters \in ListFilters : list(m, filters)
  \/ \E m \in CreateManagers : \E a \in ArgsOf(m) : create(m, a)
  \/ \E m \in PutManagers : \E a \in ArgsOf(m) : put(m, a)
  \/ \E m \in PatchManagers : \E a \in ArgsOf(m) : patch(m, a)
  \/ \E m \in TaskInstanceManagers, uuid \in Uuids : clone(m, uuid)
  \/ \E m \in TaskInstanceManagers, uuid \in Uuids : terminate(m, uuid)
  \/ \E m \in Managers : \E obj \in ModelsHeld(m) : sync(m, obj)

Spec == Init /\ [][Next]_vars

(***************************************************************************)
(* wait_until_finished against a server that follows the task instance     *)
(* through its lifecycle: every fetch is answered 200 with the state the   *)
(* server holds at that moment, a finish status is never left, and the     *)
(* server does reach one.                                                  *)
(***************************************************************************)
\* The states of the lifecycle.
LifecycleStates == {CREATED, PUBLISHED, RUNNING} \cup TASK_INSTANCE_FINISH_STATUSES

\* The answer to a fetch of uuid now.
ServerAnswer(uuid) ==
  Response(HTTP_200_OK, "instance-json", InstanceData(uuid, server))

LiveInit ==
  /\ pc = "idle"
  /\ call = NoCall
  /\ log = <<>>
  /\ responses = <<>>
  /\ task_instance = <<>>
  /\ acc = <<>>
  /\ result = <<>>
  /\ error = NoError
  /\ self = <<>>
  /\ caller_filters = NoObject
  /\ server \in LifecycleStates
  /\ environ = NoEnviron
  /\ client = ConstructedClient

\* The server moves the instance on; a finish status is final.
server_step ==
  /\ server \notin TASK_INSTANCE_FINISH_STATUSES
  /\ server' \in LifecycleStates \ {server}
  /\ UNCHANGED <<pc, call, log, responses, task_instance, acc, result, error,
                 self, caller_filters, environ, client>>

\* The call and its first fetch, answered by the server.
served_wait_until_finished(m, uuid, refresh_period) ==
  /\ wait_until_finished(m, uuid, refresh_period)
  /\ responses' = <<ServerAnswer(uuid)>>

\* time.sleep(refresh_period).  The model follows MaxFetches fetches: the
\* rounds a longer call would spend on a server still before a finish
\* status are folded into the last sleep followed.
served_wait_sleep ==
  /\ wait_sleep
  /\ \/ Len(responses) < MaxFetches - 1
     \/ server \in TASK_INSTANCE_FINISH_STATUSES

\* task_instance = self.get(uuid), answered by the server.
served_wait_fetch ==
  /\ wait_fetch
  /\ responses' = Append(responses, ServerAnswer(call.uuid))

LiveNext ==
  \/ \E m \in TaskInstanceManagers, uuid \in Uuids, p \in RefreshPeriods :
       served_wait_until_finished(m, uuid, p)
  \/ served_wait_sleep
  \/ served_wait_fetch
  \/ server_step

\* The polling loop is not starved, and the server reaches a finish status.
LiveSpec ==
  /\ LiveInit
  /\ [][LiveNext]_vars
  /\ WF_vars(served_wait_sleep)
  /\ WF_vars(served_wait_fetch)
  /\ <>(server \in TASK_INSTANCE_FINISH_STATUSES)

(***************************************************************************)
(* saltant/client.py: Client.__init__, test_authentication, from_env, and  *)
(* a request a manager of the constructed client sends through its         *)
(* session.                                                                *)
(***************************************************************************)
\* Arguments callers construct a client with.
BaseApiUrls == {base_api_url, "http://localhost:8000/api/"}

AuthTokens == {"token-a", "token-b"}

Timeouts == {DEFAULT_TIMEOUT_SECONDS, 30}

\* os.environ as far as from_env reads it: each variable unset or holding
\* a string (the empty string is a value too).
Environs ==
  [SALTANT_API_URL : {Unset, <<base_api_url>>},
   SALTANT_AUTH_TOKEN : {Unset, <<"">>, <<"token-b">>}]

\* Status codes the server answers the authentication probe with.
ProbeStatuses == {200, 201, 401, 403}

\* session.request(method, url): the request carries the session's headers
\* and, once functools.partial has wrapped session.request, the timeout.
SessionRequest(c, method, url) ==
  [kind |-> "request", method |-> method, url |-> url,
   headers |-> c.headers, timeout |-> c.timeout]

\* A plausible slip: the timeout is recorded before the authentication
\* test is made.
InitSteps_timeout_first(test_if_authenticated) ==
  <<"bind_timeout">>
    \o (IF test_if_authenticated THEN <<"test_authentication">> ELSE <<>>)
    \o <<"attach_managers">>

\* The statements of __init__ after the session has its header, in order.
InitSteps(test_if_authenticated) ==
  (IF test_if_authenticated THEN <<"test_authentication">> ELSE <<>>)
    \o <<"bind_timeout", "attach_managers">>

\* Where __init__ is after statement s: at the next statement, or done.
StepAfter(steps, s) ==
  LET i == CHOOSE j \in 1..Len(steps) : steps[j] = s
  IN  IF i = Len(steps) THEN "returned" ELSE steps[i + 1]

\* A plausible slip: any 2xx answer counts as authenticated.
StatusAuthenticated_any_2xx(status_code) ==
  status_code >= 200 /\ status_code < 300

\* test_authentication's assert.
StatusAuthenticated(status_code) == status_code = HTTP_200_OK

\* A plausible slip: os.environ.get(..., '') for the token.
EnvironLookup_token_defaulting(env) ==
  IF env.SALTANT_API_URL = Unset
  THEN [err |-> [kind |-> "BadEnvironmentError",
                 msg |-> <<"SALTANT_API_URL not defined!">>],
        base_api_url |-> "", auth_token |-> ""]
  ELSE [err |-> NoError,
        base_api_url |-> env.SALTANT_API_URL[1],
        auth_token |-> IF env.SALTANT_AUTH_TOKEN = Unset THEN ""
                       ELSE env.SALTANT_AUTH_TOKEN[1]]

\* from_env's two os.environ lookups, the URL first.
EnvironLookup(env) ==
  IF env.SALTANT_API_URL = Unset
  THEN [err |-> [kind |-> "BadEnvironmentError",
                 msg |-> <<"SALTANT_API_URL not defined!">>],
        base_api_url |-> "", auth_token |-> ""]
  ELSE IF env.SALTANT_AUTH_TOKEN = Unset
  THEN [err |-> [kind |-> "BadEnvironmentError",
                 msg |-> <<"SALTANT_AUTH_TOKEN not defined!">>],
        base_api_url |-> "", auth_token |-> ""]
  ELSE [err |-> NoError,
        base_api_url |-> env.SALTANT_API_URL[1],
        auth_token |-> env.SALTANT_AUTH_TOKEN[1]]

ClientInit ==
  /\ pc = "idle"
  /\ call = NoCall
  /\ log = <<>>
  /\ responses = <<>>
  /\ task_instance = <<>>
  /\ acc = <<>>
  /\ result = <<>>
  /\ error = NoError
  /\ self = <<>>
  /\ caller_filters = NoObject
  /\ server = NoServer
  /\ environ \in Environs
  /\ client = NoClient

\* __init__ up to the session's header: base_api_url, the session, the
\* Authorization header.
Client_init_enter(op, url, auth_token, default_timeout, test_if_authenticated) ==
  /\ call' = [op |-> op, mgr |-> "none", base_api_url |-> url,
              auth_token |-> auth_token, default_timeout |-> default_timeout,
              test_if_authenticated |-> test_if_authenticated]
  /\ client' = [NoClient EXCEPT !.base_api_url = <<url>>,
                                !.headers = AuthorizationHeader(auth_token)]
  /\ pc' = InitSteps(test_if_authenticated)[1]
  /\ UNCHANGED <<log, responses, error>>

\* Client(base_api_url, auth_token, default_timeout, test_if_authenticated)
Client(url, auth_token, default_timeout, test_if_authenticated) ==
  /\ pc = "idle"
  /\ Client_init_enter("Client", url, auth_token, default_timeout,
                       test_if_authenticated)
  /\ UNCHANGED <<task_instance, acc, result, self, caller_filters, server,
                 environ>>

\* Client.from_env(default_timeout)
from_env(default_timeout) ==
  /\ pc = "idle"
  /\ LET e == EnvironLookup(environ)
     IN  IF e.err # NoError
         THEN /\ call' = [op |-> "from_env", mgr |-> "none",
                          default_timeout |-> default_timeout]
              /\ pc' = "raised"
              /\ error' = e.err
              /\ UNCHANGED <<log, responses, client>>
         ELSE Client_init_enter("from_env", e.base_api_url, e.auth_token,
                                default_timeout, TRUE)
  /\ UNCHANGED <<task_instance, acc, result, self, caller_filters, server,
                 environ>>

\* if test_if_authenticated: self.test_authentication()
test_authentication ==
  /\ pc = "test_authentication"
  /\ \E status_code \in ProbeStatuses :
       /\ log' = Append(log, SessionRequest(client, "GET",
                                            client.base_api_url \o <<"users/">>))
       /\ responses' = Append(responses, Response(status_code, "users-json", <<>>))
       /\ IF StatusAuthenticated(status_code)
          THEN /\ pc' = StepAfter(InitSteps(call.test_if_authenticated), pc)
               /\ UNCHANGED error
          ELSE /\ pc' = "raised"
               /\ error' = [kind |-> "AuthenticationError",
                            msg |-> <<"Authentication invalid!">>]
  /\ UNCHANGED <<call, client>>
  /\ UNCHANGED <<task_instance, acc, result, self, caller_filters, server,
                 environ>>

\* self.session.request = functools.partial(self.session.request,
\*                                          timeout=default_timeout)
bind_timeout ==
  /\ pc = "bind_timeout"
  /\ client' = [client EXCEPT !.timeout = <<call.default_timeout>>]
  /\ pc' = StepAfter(InitSteps(call.test_if_authenticated), pc)
  /\ UNCHANGED <<call, log, responses, error>>
  /\ UNCHANGED <<task_instance, acc, result, self, caller_filters, server,
                 environ>>

\* The six manager attributes.
attach_managers ==
  /\ pc = "attach_managers"
  /\ client' = [client EXCEPT !.managers = AttachedManagers]
  /\ pc' = StepAfter(InitSteps(call.test_if_authenticated), pc)
  /\ UNCHANGED <<call, log, responses, error>>
  /\ UNCHANGED <<task_instance, acc, result, self, caller_filters, server,
                 environ>>

\* A manager of the constructed client sends a request: every manager
\* method goes through self._client.session.
manager_request(m, method) ==
  /\ pc = "returned"
  /\ m \in client.managers
  /\ call' = [call EXCEPT !.mgr = m]
  /\ log' = Append(log, SessionRequest(client, method,
                                       client.base_api_url \o list_url(m)))
  /\ pc' = "requested"
  /\ UNCHANGED <<responses, error, client>>
  /\ UNCHANGED <<task_instance, acc, result, self, caller_filters, server,
                 environ>>

ClientNext ==
  \/ \E url \in BaseApiUrls, auth_token \in AuthTokens,
        default_timeout \in Timeouts, test_if_authenticated \in BOOLEAN :
       Client(url, auth_token, default_timeout, test_if_authenticated)
  \/ \E default_timeout \in Timeouts : from_env(default_timeout)
  \/ test_authentication
  \/ bind_timeout
  \/ attach_managers
  \/ \E m \in Managers, method \in {"GET", "POST"} : manager_request(m, method)

ClientSpec == ClientInit /\ [][ClientNext]_vars

(***************************************************************************)
(* Vocabulary of the properties.                                           *)
(***************************************************************************)
\* The three terminal states and the detail URLs, as the specification
\* gives them.
TerminalStates == {"successful", "failed", "terminated"}

SpecDetailUrl(m, uuid) ==
  <<base_api_url,
    IF m = "container_task_instances" THEN "containertaskinstances/"
    ELSE "executabletaskinstances/",
    uuid, "/">>

IsWait == call.op = "wait_until_finished"

Finished == pc \in {"returned", "raised"}

Fetches == SelectSeq(log, LAMBDA e : e.kind = "request")

Sleeps == SelectSeq(log, LAMBDA e : e.kind = "sleep")

\* The server answered the i-th fetch with status 200 and a state in S.
Answered200(i, S) ==
  responses[i].status = 200 /\ responses[i].json.state \in S

\* The server answered the i-th fetch with status 200 and a state outside S.
Answered200Not(i, S) ==
  responses[i].status = 200 /\ responses[i].json.state \notin S

LastResponse == responses[Len(responses)]

(***************************************************************************)
(* C1.  Whenever wait_until_finished returns, what it returns is the       *)
(* instance of its most recent fetch, and that instance's state is one of  *)
(* successful, failed, terminated - whatever the server answered.          *)
(***************************************************************************)
C1_ReturnsOnlyFinished ==
  (IsWait /\ pc = "returned") =>
    /\ Len(result) = 1
    /\ Len(responses) >= 1
    /\ result = task_instance
    /\ result[1].attrs.uuid = LastResponse.json.uuid
    /\ result[1].attrs.state = LastResponse.json.state
    /\ result[1].attrs.state \in TerminalStates

\* A call that returned a terminated instance at its third fetch.
C1_Witness ==
  /\ IsWait
  /\ pc = "returned"
  /\ Len(responses) = 3
  /\ Answered200Not(1, TerminalStates)
  /\ Answered200Not(2, TerminalStates)
  /\ result[1].attrs.state = "terminated"

(***************************************************************************)
(* C2.  wait_until_finished stops at the first fetch the server answers    *)
(* with a terminal state: if the first k answers are non-terminal and      *)
(* answer k+1 is terminal, exactly k+1 GETs to the detail URL were sent,   *)
(* the instance of answer k+1 is returned and nothing more is sent.        *)
(***************************************************************************)
C2_StopsAtFirstTerminal ==
  ( /\ IsWait
    /\ Len(responses) >= 1
    /\ \A i \in 1..(Len(responses) - 1) : Answered200Not(i, TerminalStates)
    /\ Answered200(Len(responses), TerminalStates) ) =>
    /\ pc = "returned"
    /\ Len(Fetches) = Len(responses)
    /\ \A i \in 1..Len(Fetches) :
         /\ Fetches[i].method = "GET"
         /\ Fetches[i].url = SpecDetailUrl(call.mgr, call.uuid)
    /\ Len(result) = 1
    /\ result[1].attrs.state = LastResponse.json.state
    /\ ~ENABLED wait_sleep
    /\ ~ENABLED wait_fetch

(***************************************************************************)
(* C3.  In wait_until_finished every two consecutive fetches are separated *)
(* by exactly one sleep of refresh_period seconds: the log starts with a   *)
(* fetch, alternates fetch and sleep, every sleep lasts the call's         *)
(* refresh_period, and when the call ends (or tests its loop condition)    *)
(* the sleeps number the fetches minus one.                                *)
(***************************************************************************)
C3_OneSleepBetweenFetches ==
  IsWait =>
    /\ \A i \in 1..Len(log) :
         IF i % 2 = 1
         THEN log[i].kind = "request"
         ELSE log[i].kind = "sleep" /\ log[i].period = call.refresh_period
    /\ pc \in {"returned", "raised", "wait_sleep"} =>
         /\ Len(Fetches) >= 1
         /\ Len(Sleeps) = Len(Fetches) - 1
    /\ pc = "wait_fetch" => Len(Sleeps) = Len(Fetches)

\* A call that returned after three fetches and two sleeps of 5 seconds.
C3_Witness ==
  /\ IsWait
  /\ pc = "returned"
  /\ call.refresh_period = 5
  /\ Len(Fetches) = 3
  /\ Len(Sleeps) = 2

(***************************************************************************)
(* C4.  wait_until_finished is an unbounded poll: as long as the server    *)
(* answers every fetch with status 200 and a non-terminal state, the call  *)
(* has neither returned nor raised and goes on to sleep and fetch again.   *)
(***************************************************************************)
C4_UnboundedPoll ==
  ( /\ IsWait
    /\ Len(responses) >= 1
    /\ \A i \in 1..Len(responses) : Answered200Not(i, TerminalStates) ) =>
    /\ pc \in {"wait_sleep", "wait_fetch"}
    /\ (pc = "wait_sleep" /\ Len(responses) < MaxFetches) => ENABLED wait_sleep
    /\ pc = "wait_fetch" => ENABLED wait_fetch

\* The methods that send one request, and the one status code each expects,
\* as the specification gives them.
SingleRequestOps ==
  {"get", "list", "put", "patch", "create", "clone", "terminate"}

SpecExpectedStatus(op) ==
  CASE op \in {"get", "list", "put", "patch"} -> 200
    [] op \in {"create", "clone"} -> 201
    [] op = "terminate" -> 202

(***************************************************************************)
(* C5.  No HTTP failure is retried or swallowed: a fetch of                *)
(* wait_until_finished answered with a status other than 200 raises the    *)
(* bad-request error at that fetch, and no request or sleep follows it;    *)
(* every single-request method sends exactly one request and raises the    *)
(* bad-request error on a wrong status, sending nothing again.             *)
(***************************************************************************)
C5_NoRetryNoSwallow ==
  /\ ( /\ IsWait
       /\ Len(responses) >= 1
       /\ LastResponse.status # 200 ) =>
       /\ pc = "raised"
       /\ error.kind = "BadHttpRequestError"
       /\ Len(Fetches) = Len(responses)
       /\ log[Len(log)].kind = "request"
       /\ ~ENABLED wait_sleep
       /\ ~ENABLED wait_fetch
  /\ ( /\ call.op \in SingleRequestOps
       /\ Len(responses) >= 1 ) =>
       /\ Len(log) = 1
       /\ log[1].kind = "request"
       /\ LastResponse.status # SpecExpectedStatus(call.op) =>
            pc = "raised" /\ error.kind = "BadHttpRequestError"
       /\ ~ENABLED Next

(***************************************************************************)
(* Vocabulary of the fan-out properties.                                   *)
(***************************************************************************)
\* The POST the manager's clone / terminate builds for one uuid.
ElementUrl(op, m, uuid) ==
  <<base_api_url>>
    \o Format(IF op = "clone_many" THEN clone_url(m) ELSE terminate_url(m),
              "{id}", uuid)

\* The i-th returned model is the one built from the i-th answer.
BuiltFromAnswer(i) ==
  /\ result[i].manager = call.mgr
  /\ result[i].attrs.uuid = responses[i].json.uuid
  /\ result[i].attrs.state = responses[i].json.state

\* The fan-out of a *_many call whose element calls expect status code
\* expected: one POST per uuid in input order, answers turned into results
\* in input order, and a stop at the first refused element.
FanOut(op, expected, next_enabled) ==
  call.op = op =>
    \* one POST per element handled so far, in input order, nothing else
    /\ Len(log) = Len(responses)
    /\ Len(log) <= Len(call.uuids)
    /\ \A i \in 1..Len(log) :
         /\ log[i].kind = "request"
         /\ log[i].method = "POST"
         /\ log[i].url = ElementUrl(op, call.mgr, call.uuids[i])
    \* every element before the last one handled was accepted by the server
    /\ \A i \in 1..(Len(responses) - 1) : responses[i].status = expected
    \* full success: as many results as uuids, in input order
    /\ pc = "returned" =>
         /\ Len(log) = Len(call.uuids)
         /\ Len(result) = Len(call.uuids)
         /\ \A i \in 1..Len(result) :
              responses[i].status = expected /\ BuiltFromAnswer(i)
    \* a refused element: the error propagates and nothing follows
    /\ (Len(responses) >= 1 /\ LastResponse.status # expected) =>
         /\ pc = "raised"
         /\ error.kind = "BadHttpRequestError"
         /\ result = <<>>
         /\ ~next_enabled
    /\ pc = "raised" => LastResponse.status # expected
    \* elements remain and none was refused: the next one is handled
    /\ pc = op => next_enabled

(***************************************************************************)
(* C6.  clone_many(uuids) issues one clone POST per element in input       *)
(* order; on full success it returns, in input order, the instances built  *)
(* from the answers; when the clone of element j fails the error           *)
(* propagates, the clones of 1..j-1 stay accepted by the server (no        *)
(* request undoes them) and no request is sent for the elements after j.   *)
(***************************************************************************)
C6_CloneManySequential ==
  FanOut("clone_many", 201, ENABLED clone_many_next)

\* clone_many on the container manager whose second clone was refused
\* after the first was accepted.
C6_Witness ==
  /\ call.op = "clone_many"
  /\ call.mgr = "container_task_instances"
  /\ call.uuids = <<"uuid-b", "uuid-a">>
  /\ pc = "raised"
  /\ Len(log) = 2
  /\ responses[1].status = 201
  /\ responses[2].status = 404

\* clone_many that returned two instances in input order.
C6_WitnessSuccess ==
  /\ call.op = "clone_many"
  /\ call.uuids = <<"uuid-b", "uuid-a">>
  /\ pc = "returned"
  /\ result[1].attrs.uuid = "uuid-d"
  /\ result[2].attrs.uuid = "uuid-c"

(***************************************************************************)
(* C7.  terminate_many(uuids) is a sequential, non-atomic fan-out over     *)
(* terminate: one POST per uuid in input order, results in input order;    *)
(* when element j is not answered with 202 the error propagates, the       *)
(* terminates of 1..j-1 stay accepted and no request follows for the       *)
(* elements after j.                                                       *)
(***************************************************************************)
C7_TerminateManySequential ==
  FanOut("terminate_many", 202, ENABLED terminate_many_next)

\* terminate_many on the container manager whose second terminate was
\* answered 200 instead of 202 after the first was accepted.
C7_Witness ==
  /\ call.op = "terminate_many"
  /\ call.mgr = "container_task_instances"
  /\ call.uuids = <<"uuid-a", "uuid-b">>
  /\ pc = "raised"
  /\ Len(log) = 2
  /\ responses[1].status = 202
  /\ responses[2].status = 200

(***************************************************************************)
(* C8.  Each manager method has one expected status code (200 for get,     *)
(* list, put, patch; 201 for create, clone; 202 for terminate) and returns *)
(* models if and only if the answer's status is exactly that code; any     *)
(* other status, another 2xx included, raises BadHttpRequestError and no   *)
(* model is built from the answer.                                         *)
(***************************************************************************)
C8_ReturnsIffExpectedStatus ==
  (call.op \in SingleRequestOps /\ Len(responses) = 1) =>
    /\ pc = "returned" <=> LastResponse.status = SpecExpectedStatus(call.op)
    /\ LastResponse.status # SpecExpectedStatus(call.op) =>
         /\ pc = "raised"
         /\ error.kind = "BadHttpRequestError"
         /\ result = <<>>

(***************************************************************************)
(* C9.  A put that expects 200 and is answered 400 - and any call in which *)
(* validate_request_success sees a status other than the expected one -    *)
(* raises a bad-request error whose message contains the request URL (for  *)
(* put: the detail URL with the id substituted), the status code received  *)
(* and the text of the response body.                                      *)
(***************************************************************************)
\* The detail URL of id, as the specification's endpoint table gives it.
SpecResourceDetailUrl(m, id) ==
  <<base_api_url,
    CASE m = "container_task_types" -> "containertasktypes/"
      [] m = "executable_task_types" -> "executabletasktypes/"
      [] m = "task_queues" -> "taskqueues/"
      [] m = "task_whitelists" -> "taskwhitelists/",
    id, "/">>

\* The request the last answer belongs to.
LastRequest == Fetches[Len(Fetches)]

C9_BadRequestMessage ==
  /\ error.kind = "BadHttpRequestError" =>
       /\ Len(responses) >= 1
       /\ Len(Fetches) = Len(responses)
       /\ Contains(error.msg, LastRequest.url)
       /\ Contains(error.msg, <<ToString(LastResponse.status)>>)
       /\ Contains(error.msg, <<LastResponse.text>>)
  /\ (call.op = "put" /\ Len(responses) = 1 /\ LastResponse.status # 200) =>
       /\ pc = "raised"
       /\ error.kind = "BadHttpRequestError"
       /\ LastRequest.method = "PUT"
       /\ LastRequest.url = SpecResourceDetailUrl(call.mgr, call.args.id.v[1])
       /\ Contains(error.msg,
                   SpecResourceDetailUrl(call.mgr, call.args.id.v[1]))

\* A put of a task type answered 400 with the body "Server Error (500)".
C9_Witness ==
  /\ call.op = "put"
  /\ call.mgr = "executable_task_types"
  /\ pc = "raised"
  /\ LastResponse.status = 400
  /\ LastResponse.text = "Server Error (500)"
  /\ Contains(error.msg, <<"400">>)
  /\ Contains(error.msg, <<"Server Error (500)">>)

(***************************************************************************)
(* C10.  For a filter mapping (None and the empty mapping included) with   *)
(* neither 'page' nor 'page_size', list() sends exactly one GET to the     *)
(* list URL whose query string holds page=1, page_size=2^63-1 and every    *)
(* filter of the caller, and on status 200 returns one model per element   *)
(* of the answer's results array, in the answer's order.                   *)
(***************************************************************************)
\* The list URL, as the specification's endpoint table gives it.
SpecListUrl(m) ==
  <<base_api_url,
    CASE m = "container_task_instances" -> "containertaskinstances/"
      [] m = "executable_task_instances" -> "executabletaskinstances/"
      [] m = "container_task_types" -> "containertasktypes/"
      [] m = "executable_task_types" -> "executabletasktypes/"
      [] m = "task_queues" -> "taskqueues/"
      [] m = "task_whitelists" -> "taskwhitelists/"
      [] m = "users" -> "users/">>

\* The caller's filters, none for None.
CallerFilters == IF call.filters.none THEN <<>> ELSE call.filters.items

\* key=value stands in the query string, after a '?' or a '&'.
InQuery(url, k, valtext) ==
  \/ Contains(url, <<"?", k, "=">> \o valtext)
  \/ Contains(url, <<"&", k, "=">> \o valtext)

\* What identifies a resource in response data and in a model's fields.
IdentOf(data) ==
  IF "uuid" \in DOMAIN data THEN <<data.uuid, data.state>>
  ELSE IF "username" \in DOMAIN data THEN <<data.username>>
  ELSE <<data.id>>

ModelClasses ==
  {"ContainerTaskInstance", "ExecutableTaskInstance", "BaseTaskInstance",
   "ContainerTaskType", "ExecutableTaskType", "TaskQueue", "TaskWhitelist",
   "User"}

C10_ListAsksForEverything ==
  ( /\ call.op = "list"
    /\ "page" \notin Keys(CallerFilters)
    /\ "page_size" \notin Keys(CallerFilters) ) =>
    /\ Len(log) = 1
    /\ Len(responses) = 1
    /\ log[1].kind = "request"
    /\ log[1].method = "GET"
    /\ SubSeq(log[1].url, 1, 2) = SpecListUrl(call.mgr)
    /\ InQuery(log[1].url, "page", <<"1">>)
    /\ InQuery(log[1].url, "page_size", <<"9223372036854775807">>)
    /\ \A i \in 1..Len(CallerFilters) :
         InQuery(log[1].url, CallerFilters[i].k, PyStrOf(CallerFilters[i].val))
    /\ LastResponse.status = 200 =>
         /\ pc = "returned"
         /\ Len(result) = Len(LastResponse.json.results)
         /\ \A i \in 1..Len(result) :
              /\ result[i].class \in ModelClasses
              /\ result[i].manager = call.mgr
              /\ IdentOf(result[i].attrs) = IdentOf(LastResponse.json.results[i])

\* A list call with a caller's filter and no page parameters that returned
\* two different models in the answer's order.
C10_Witness ==
  /\ call.op = "list"
  /\ call.filters = FiltersDict(<<Item("name__startswith", PyStr("azure"))>>)
  /\ pc = "returned"
  /\ Len(result) = 2
  /\ IdentOf(result[1].attrs) # IdentOf(result[2].attrs)

\* A list call with filters None that returned.
C10_WitnessNone ==
  /\ call.op = "list"
  /\ call.filters.none
  /\ pc = "returned"
  /\ Len(result) = 1


(***************************************************************************)
(* C11.  get(id, name) of the task-type, task-queue and task-whitelist     *)
(* managers, called with both id and name or with neither, raises          *)
(* ValueError before any request is sent; called with exactly one of the   *)
(* two it raises no ValueError.                                            *)
(***************************************************************************)
\* A call of get(id=..., name=...).
IsIdOrNameGet ==
  /\ call.op = "get"
  /\ call.mgr \in {"container_task_types", "executable_task_types",
                   "task_queues", "task_whitelists"}

C11_GetNeedsExactlyOneOfIdAndName ==
  IsIdOrNameGet =>
    IF (call.id.py = "NoneType") = (call.name.py = "NoneType")
    THEN /\ pc = "raised"
         /\ error.kind = "ValueError"
         /\ log = <<>>
         /\ responses = <<>>
         /\ result = <<>>
    ELSE /\ error.kind # "ValueError"
         /\ Len(log) = 1

\* get(id=1, name="echo-test") on a task queue raised ValueError with no
\* request sent.
C11_Witness ==
  /\ IsIdOrNameGet
  /\ call.mgr = "task_queues"
  /\ call.id.py = "int"
  /\ call.name.py = "str"
  /\ pc = "raised"
  /\ error.kind = "ValueError"
  /\ log = <<>>

\* get() with neither argument on a task-type manager raised ValueError.
C11_WitnessNeither ==
  /\ IsIdOrNameGet
  /\ call.mgr = "container_task_types"
  /\ call.id.py = "NoneType"
  /\ call.name.py = "NoneType"
  /\ pc = "raised"
  /\ error.kind = "ValueError"

(***************************************************************************)
(* C12.  On the task-type managers get(id=X) sends exactly one GET, to the *)
(* detail URL of X, and no list request; get(name=Y) sends exactly one     *)
(* list request filtered by name=Y and behaves as                          *)
(* list(filters={"name": Y})[0]: it returns the model of the first element *)
(* of the answer's results, however many there are.                        *)
(***************************************************************************)
C12_GetByIdOrByName ==
  ( /\ call.op = "get"
    /\ call.mgr \in {"container_task_types", "executable_task_types"}
    /\ (call.id.py = "NoneType") # (call.name.py = "NoneType") ) =>
    /\ Len(log) = 1
    /\ Len(responses) = 1
    /\ log[1].kind = "request"
    /\ log[1].method = "GET"
    /\ IF call.id.py # "NoneType"
       THEN /\ log[1].url = SpecResourceDetailUrl(call.mgr, call.id.v[1])
            /\ LastResponse.status = 200 =>
                 /\ pc = "returned"
                 /\ Len(result) = 1
                 /\ result[1].attrs.id = LastResponse.json.id
       ELSE /\ SubSeq(log[1].url, 1, 2) = SpecListUrl(call.mgr)
            /\ InQuery(log[1].url, "name", call.name.v)
            /\ LastResponse.status = 200 =>
                 IF LastResponse.json.results = <<>>
                 \* [][0] raises IndexError, here as in list(...)[0]
                 THEN pc = "raised" /\ error.kind = "IndexError"
                 ELSE /\ pc = "returned"
                      /\ Len(result) = 1
                      /\ result[1].manager = call.mgr
                      /\ result[1].attrs.id = LastResponse.json.results[1].id

\* get(name="echo-test") answered with two task types of that name, ids 2
\* and 1 in that order, returned the one with id 2.
C12_Witness ==
  /\ call.op = "get"
  /\ call.mgr = "executable_task_types"
  /\ call.id.py = "NoneType"
  /\ call.name = PyStr("echo-test")
  /\ pc = "returned"
  /\ Len(LastResponse.json.results) = 2
  /\ LastResponse.json.results[1].id = "2"
  /\ LastResponse.json.results[2].id = "1"
  /\ result[1].attrs.id = "2"

\* get(id=1) returned after one GET to the detail URL.
C12_WitnessById ==
  /\ call.op = "get"
  /\ call.mgr = "container_task_types"
  /\ call.id = PyInt(1)
  /\ call.name.py = "NoneType"
  /\ pc = "returned"
  /\ log[1].url = <<base_api_url, "containertasktypes/", "1", "/">>


(***************************************************************************)
(* C13.  Every exception a manager method raises to its caller is one of   *)
(* the four kinds BadEnvironmentError, AuthenticationError,                *)
(* BadHttpRequestError and ValueError, for every method and every answer   *)
(* of the server - a by-name get answered with an empty results array and  *)
(* a get on the executable task-instance manager answered 200 included.    *)
(***************************************************************************)
ErrorTaxonomy ==
  {"BadEnvironmentError", "AuthenticationError", "BadHttpRequestError",
   "ValueError"}

C13_ErrorsWithinTaxonomy ==
  pc = "raised" => error.kind \in ErrorTaxonomy

(***************************************************************************)
(* C14.  On both task-instance managers get(uuid) answered with status 200 *)
(* sends exactly one GET, to that variant's detail URL with the uuid in    *)
(* it, and returns one instance of that variant's model.                   *)
(***************************************************************************)
\* The model class of each variant, as the specification names it.
SpecInstanceModel(m) ==
  IF m = "container_task_instances" THEN "ContainerTaskInstance"
  ELSE "ExecutableTaskInstance"

C14_InstanceGet ==
  ( /\ call.op = "get"
    /\ call.mgr \in {"container_task_instances", "executable_task_instances"}
    /\ Len(responses) = 1
    /\ LastResponse.status = 200 ) =>
    /\ Len(log) = 1
    /\ log[1].kind = "request"
    /\ log[1].method = "GET"
    /\ log[1].url = SpecDetailUrl(call.mgr, call.uuid)
    /\ pc = "returned"
    /\ Len(result) = 1
    /\ result[1].class = SpecInstanceModel(call.mgr)
    /\ result[1].attrs.uuid = call.uuid

(***************************************************************************)
(* C15.  Every model a manager method returns - from list, get, create,    *)
(* put, patch, clone, terminate, the *_many methods and                    *)
(* wait_until_finished, for every resource family - carries as its        *)
(* manager the manager that produced it.                                   *)
(***************************************************************************)
C15_ManagerBackReference ==
  pc = "returned" =>
    \A i \in 1..Len(result) : result[i].manager = call.mgr

\* A list on the executable task-instance manager returned two models.
C15_Witness ==
  /\ pc = "returned"
  /\ call.op = "list"
  /\ call.mgr = "executable_task_instances"
  /\ Len(result) = 2
  /\ result[1].manager = "executable_task_instances"


(***************************************************************************)
(* C16.  For a task instance of either variant built from a create         *)
(* response, sync() sends exactly one GET to the instance's detail URL     *)
(* and, answered 200, yields an object whose fields equal, field by field, *)
(* those of a get() by the same UUID given the same answer.                *)
(***************************************************************************)
\* sync() was called on a task instance built from a create response.
IsSyncOfCreatedInstance ==
  /\ call.op = "sync"
  /\ call.mgr \in {"container_task_instances", "executable_task_instances"}
  /\ call.obj \in ModelsFromCreate(call.mgr)

C16_SyncEqualsFreshGet ==
  IsSyncOfCreatedInstance =>
    /\ Len(log) = 1
    /\ Len(responses) = 1
    /\ log[1].kind = "request"
    /\ log[1].method = "GET"
    /\ log[1].url = SpecDetailUrl(call.mgr, call.obj.attrs.uuid)
    /\ LastResponse.status = 200 =>
         LET fresh == TaskInstance_get(call.mgr, call.obj.attrs.uuid,
                                       LastResponse)
         IN  /\ pc = "returned"
             /\ fresh.err = NoError
             /\ Len(result) = 1
             /\ result[1].attrs = fresh.val[1].attrs
             /\ result[1].attrs.uuid = LastResponse.json.uuid
             /\ result[1].attrs.state = LastResponse.json.state

C17_WitnessQueue ==
  /\ call.op = "sync"
  /\ call.mgr = "task_queues"
  /\ pc = "returned"
  /\ self = call.obj


(***************************************************************************)
(* C18.  A task-instance answer with datetime_finished null and state      *)
(* "running" gives a model whose datetime_finished is the null value and   *)
(* whose state is exactly "running", and no error; in every task-instance  *)
(* model datetime_created is a parsed datetime, datetime_finished is       *)
(* parsed only when not null, and state is the string received.            *)
(***************************************************************************)
\* The model obj carries the fields of the answer body data, coerced as the
\* specification says.
CoercedFrom(obj, data) ==
  /\ obj.attrs.state = data.state
  /\ obj.attrs.uuid = data.uuid
  /\ obj.attrs.datetime_created =
       [json |-> "datetime", v |-> data.datetime_created.v]
  /\ IF data.datetime_finished.json = "null"
     THEN obj.attrs.datetime_finished = data.datetime_finished
     ELSE obj.attrs.datetime_finished =
            [json |-> "datetime", v |-> data.datetime_finished.v]
  /\ (data.state = "running" /\ data.datetime_finished.json = "null") =>
       /\ obj.attrs.state = "running"
       /\ obj.attrs.datetime_finished.json = "null"

\* The status the call in progress expects, as the specification gives it.
SpecExpectedStatusOfCall ==
  CASE call.op \in {"get", "sync", "wait_until_finished"} -> 200
    [] call.op \in {"create", "clone"} -> 201
    [] call.op = "terminate" -> 202

C18_WitnessFinished ==
  /\ call.op = "get"
  /\ call.mgr = "container_task_instances"
  /\ pc = "returned"
  /\ LastResponse.json.state = "successful"
  /\ result[1].attrs.datetime_finished.json = "datetime"


(***************************************************************************)
(* C19.  Creating a task type with only name and command_to_run given      *)
(* sends environment_variables, required_arguments and                     *)
(* required_arguments_default_values as the JSON strings "[]", "[]" and    *)
(* "{}": such a field left out by the caller is never sent as absent or    *)
(* as null.                                                                *)
(***************************************************************************)
\* The form data of the call's request, and the value it holds for key k.
FormData == log[1].data

FormKeys == {FormData[i].k : i \in 1..Len(FormData)}

FormValue(k) ==
  LET i == CHOOSE j \in 1..Len(FormData) : FormData[j].k = k
  IN  FormData[i].val

\* The str whose characters are the tokens toks.
StrOf(toks) == [py |-> "str", v |-> toks]

IsTaskTypeCreate ==
  /\ call.op = "create"
  /\ call.mgr \in {"container_task_types", "executable_task_types"}

C19_TaskTypeCreateDefaults ==
  IsTaskTypeCreate =>
    /\ Len(log) = 1
    /\ log[1].method = "POST"
    /\ {"name", "command_to_run", "environment_variables",
        "required_arguments", "required_arguments_default_values"}
         \subseteq FormKeys
    /\ \A k \in {"environment_variables", "required_arguments",
                 "required_arguments_default_values"} :
         /\ FormValue(k).py = "str"
         /\ FormValue(k).v # <<"null">>
    /\ call.args.environment_variables.py = "NoneType" =>
         FormValue("environment_variables") = StrOf(<<"[", "]">>)
    /\ call.args.required_arguments.py = "NoneType" =>
         FormValue("required_arguments") = StrOf(<<"[", "]">>)
    /\ call.args.required_arguments_default_values.py = "NoneType" =>
         FormValue("required_arguments_default_values") = StrOf(<<"{", "}">>)

\* An executable task type created with the three optional arguments left
\* out.
C19_Witness ==
  /\ IsTaskTypeCreate
  /\ call.mgr = "executable_task_types"
  /\ call.args.environment_variables.py = "NoneType"
  /\ call.args.required_arguments.py = "NoneType"
  /\ call.args.required_arguments_default_values.py = "NoneType"
  /\ pc = "returned"
  /\ FormValue("required_arguments") = StrOf(<<"[", "]">>)
  /\ FormValue("required_arguments_default_values") = StrOf(<<"{", "}">>)

(***************************************************************************)
(* C20.  Task-instance create(task_type_id, task_queue_id, arguments,      *)
(* name) sends exactly one POST to the list URL whose form data holds      *)
(* name, task_type, task_queue and arguments, arguments being the JSON     *)
(* encoding of the mapping given and "{}" when none is given; it returns   *)
(* the created instance only on status 201.                                *)
(***************************************************************************)
IsInstanceCreate ==
  /\ call.op = "create"
  /\ call.mgr \in {"container_task_instances", "executable_task_instances"}

C20_InstanceCreate ==
  IsInstanceCreate =>
    /\ Len(log) = 1
    /\ Len(responses) = 1
    /\ log[1].kind = "request"
    /\ log[1].method = "POST"
    /\ log[1].url = SpecListUrl(call.mgr)
    /\ FormKeys = {"name", "task_type", "task_queue", "arguments"}
    /\ Len(FormData) = 4
    /\ FormValue("name") = call.args.name
    /\ FormValue("task_type") = call.args.task_type_id
    /\ FormValue("task_queue") = call.args.task_queue_id
    /\ call.args.arguments.py = "NoneType" =>
         FormValue("arguments") = StrOf(<<"{", "}">>)
    /\ call.args.arguments = PyDict(<<"n", "1">>) =>
         FormValue("arguments")
           = StrOf(<<"{", "\"", "n", "\": \"", "1", "\"", "}">>)
    /\ pc = "returned" <=> LastResponse.status = 201
    /\ pc = "returned" =>
         /\ Len(result) = 1
         /\ result[1].attrs.uuid = LastResponse.json.uuid
    /\ pc # "returned" => result = <<>>

\* A create with arguments {"n": "1"} answered 201 returned the instance.
C20_Witness ==
  /\ IsInstanceCreate
  /\ call.args.arguments = PyDict(<<"n", "1">>)
  /\ pc = "returned"
  /\ LastResponse.status = 201
  /\ Len(result) = 1

\* A create without arguments posted "{}".
C20_WitnessNoArguments ==
  /\ IsInstanceCreate
  /\ call.args.arguments.py = "NoneType"
  /\ FormValue("arguments") = StrOf(<<"{", "}">>)
  /\ pc = "returned"

\* A create answered 200 raised and returned nothing.
C20_WitnessRefused ==
  /\ IsInstanceCreate
  /\ LastResponse.status = 200
  /\ pc = "raised"
  /\ error.kind = "BadHttpRequestError"


(***************************************************************************)
(* C21.  clone(uuid) and terminate(uuid) on each task-instance manager,    *)
(* container and executable alike, post to that variant's detail path for  *)
(* the uuid followed by clone/ or terminate/, and expect 201 and 202.      *)
(***************************************************************************)
\* The per-instance sub-path URLs, as the specification's endpoint table
\* gives them.
SpecSubPathUrl(m, uuid, sub) ==
  <<base_api_url,
    IF m = "container_task_instances" THEN "containertaskinstances/"
    ELSE "executabletaskinstances/",
    uuid,
    IF sub = "clone" THEN "/clone/" ELSE "/terminate/">>

C21_CloneAndTerminateUrls ==
  ( /\ call.op \in {"clone", "terminate"}
    /\ call.mgr \in {"container_task_instances", "executable_task_instances"} )
  =>
    /\ Len(log) = 1
    /\ Len(responses) = 1
    /\ log[1].kind = "request"
    /\ log[1].method = "POST"
    /\ log[1].url = SpecSubPathUrl(call.mgr, call.uuid, call.op)
    /\ pc = "returned"
         <=> LastResponse.status = (IF call.op = "clone" THEN 201 ELSE 202)


(***************************************************************************)
(* C25.  patch(id, ...) of the task-queue and task-whitelist managers      *)
(* sends, to the detail URL of id, a body holding exactly the fields the   *)
(* caller gave a value other than None, and no other field; put sends      *)
(* every field of the record.                                              *)
(***************************************************************************)
\* The fields of a task queue and of a task whitelist, as the specification
\* lists them.
SpecRecordFields(m) ==
  IF m = "task_queues"
  THEN {"name", "description", "private", "runs_executable_tasks",
        "runs_docker_container_tasks", "runs_singularity_container_tasks",
        "active", "whitelists"}
  ELSE {"name", "description", "whitelisted_container_task_types",
        "whitelisted_executable_task_types"}

IsPatchOrPut ==
  /\ call.op \in {"patch", "put"}
  /\ call.mgr \in {"task_queues", "task_whitelists"}

C25_PatchSendsOnlyGivenFields ==
  IsPatchOrPut =>
    /\ Len(log) = 1
    /\ log[1].kind = "request"
    /\ log[1].method = (IF call.op = "patch" THEN "PATCH" ELSE "PUT")
    /\ log[1].url = SpecResourceDetailUrl(call.mgr, call.args.id.v[1])
    /\ Len(FormData) = Cardinality(FormKeys)
    /\ IF call.op = "patch"
       THEN FormKeys = {k \in SpecRecordFields(call.mgr) :
                          call.args[k].py # "NoneType"}
       ELSE FormKeys = SpecRecordFields(call.mgr)

\* A patch of a task queue with only name and active given sent those two
\* fields.
C25_Witness ==
  /\ IsPatchOrPut
  /\ call.op = "patch"
  /\ call.mgr = "task_queues"
  /\ call.args.description.py = "NoneType"
  /\ FormKeys = {"name", "active"}
  /\ pc = "returned"

\* A put of a task whitelist sent all four fields.
C25_WitnessPut ==
  /\ IsPatchOrPut
  /\ call.op = "put"
  /\ call.mgr = "task_whitelists"
  /\ Cardinality(FormKeys) = 4
  /\ pc = "returned"

\* A patch with nothing given sent an empty body.
C25_WitnessEmpty ==
  /\ IsPatchOrPut
  /\ call.op = "patch"
  /\ FormData = <<>>
  /\ pc = "returned"


(***************************************************************************)
(* C26.  In every create, put and patch of every resource family each      *)
(* list-valued or dict-valued field goes into the form data as a           *)
(* JSON-encoded string, never as a raw list or dict.                       *)
(***************************************************************************)
\* The list-valued and dict-valued fields of the records.
SpecListAndDictFields ==
  {"environment_variables", "required_arguments",
   "required_arguments_default_values", "arguments", "whitelists",
   "whitelisted_container_task_types", "whitelisted_executable_task_types"}

C26_ListsAndDictsAsJsonStrings ==
  (call.op \in {"create", "put", "patch"} /\ Len(log) = 1) =>
    \A k \in FormKeys \cap SpecListAndDictFields :
      FormValue(k).py \in {"str", "NoneType"}


(***************************************************************************)
(* C28.  list() decides the two pagination parameters independently and    *)
(* never overrides one the caller gave: page=1 is added if and only if     *)
(* 'page' is absent from the filters, the maximal page_size if and only if *)
(* 'page_size' is absent; a caller giving only 'page' still gets the       *)
(* maximal page_size, and a value the caller gave is sent unchanged.       *)
(***************************************************************************)
\* The value the caller's filters hold for key k.
CallerFilterValue(k) ==
  LET i == CHOOSE j \in 1..Len(CallerFilters) : CallerFilters[j].k = k
  IN  CallerFilters[i].val

\* How often the parameter k stands in the query string of url.
TimesInQuery(url, k) ==
  Cardinality({i \in 2..Len(url) : url[i] = k /\ url[i - 1] \in {"?", "&"}})

\* The query string holds parameter k exactly once, and as caller_default
\* when the caller gave none, as the caller's value otherwise.
DecidedAlone(url, k, caller_default) ==
  /\ TimesInQuery(url, k) = 1
  /\ IF k \in Keys(CallerFilters)
     THEN InQuery(url, k, PyStrOf(CallerFilterValue(k)))
     ELSE InQuery(url, k, caller_default)

C28_PageParametersIndependent ==
  call.op = "list" =>
    /\ Len(log) = 1
    /\ DecidedAlone(log[1].url, "page", <<"1">>)
    /\ DecidedAlone(log[1].url, "page_size", <<"9223372036854775807">>)

\* list(filters={"page": 2}) asked for page 2 and the maximal page_size.
C28_Witness ==
  /\ call.op = "list"
  /\ call.filters = FiltersDict(<<Item("page", PyInt(2))>>)
  /\ pc = "returned"
  /\ InQuery(log[1].url, "page", <<"2">>)
  /\ InQuery(log[1].url, "page_size", <<"9223372036854775807">>)

\* list(filters={"page_size": 10, "name": ...}) asked for page 1 and page
\* size 10.
C28_WitnessPageSize ==
  /\ call.op = "list"
  /\ "page_size" \in Keys(CallerFilters)
  /\ "page" \notin Keys(CallerFilters)
  /\ pc = "returned"
  /\ InQuery(log[1].url, "page", <<"1">>)
  /\ InQuery(log[1].url, "page_size", <<"10">>)

\* list(filters={"page": 3, "page_size": 10}) sent both as given.
C28_WitnessBoth ==
  /\ call.op = "list"
  /\ Keys(CallerFilters) = {"page", "page_size"}
  /\ pc = "returned"
  /\ InQuery(log[1].url, "page", <<"3">>)
  /\ InQuery(log[1].url, "page_size", <<"10">>)


(***************************************************************************)
(* C29.  list(filters) called with a non-empty mapping that lacks 'page'   *)
(* or 'page_size' adds those keys to the caller's own mapping: afterwards  *)
(* it holds page and page_size and every original key with its original    *)
(* value.  Called with None or an empty mapping it modifies no object of   *)
(* the caller.                                                             *)
(***************************************************************************)
\* The value the caller's mapping object holds for key k after the call.
ValueAfter(k) ==
  LET i == CHOOSE j \in 1..Len(caller_filters.items) :
             caller_filters.items[j].k = k
  IN  caller_filters.items[i].val

C29_ListWritesIntoCallersMapping ==
  call.op = "list" =>
    IF call.filters.none
    THEN caller_filters.none
    ELSE IF call.filters.items = <<>>
    THEN caller_filters = call.filters
    ELSE /\ ~caller_filters.none
         /\ Keys(caller_filters.items)
              = Keys(CallerFilters) \cup {"page", "page_size"}
         /\ Len(caller_filters.items) = Cardinality(Keys(caller_filters.items))
         /\ \A i \in 1..Len(CallerFilters) :
              caller_filters.items[i] = CallerFilters[i]
         /\ "page" \notin Keys(CallerFilters) =>
              ValueAfter("page").v = <<"1">>
         /\ "page_size" \notin Keys(CallerFilters) =>
              ValueAfter("page_size").v = <<"9223372036854775807">>

\* After list(filters={"name__startswith": "azure"}) the caller's mapping
\* holds three keys.
C29_Witness ==
  /\ call.op = "list"
  /\ call.filters = FiltersDict(<<Item("name__startswith", PyStr("azure"))>>)
  /\ pc = "returned"
  /\ Keys(caller_filters.items) = {"name__startswith", "page", "page_size"}
  /\ ValueAfter("name__startswith") = PyStr("azure")

\* After list(filters={}) the caller's mapping is still empty.
C29_WitnessEmpty ==
  /\ call.op = "list"
  /\ ~call.filters.none
  /\ call.filters.items = <<>>
  /\ pc = "returned"
  /\ caller_filters.items = <<>>
  /\ InQuery(log[1].url, "page", <<"1">>)


(***************************************************************************)
(* C27.  Against a server whose every answer is 200, that never leaves a   *)
(* finish status and eventually reaches one, a wait_until_finished call    *)
(* whose polling loop is not starved eventually returns, and it returns    *)
(* the finish status the server holds.                                     *)
(***************************************************************************)
ReturnedServersFinishStatus ==
  /\ pc = "returned"
  /\ server \in TerminalStates
  /\ Len(result) = 1
  /\ result[1].attrs.state = server

C27_WaitEventuallyReturns == IsWait ~> ReturnedServersFinishStatus

\* The same, for the container task-instance manager alone.
C27_ContainerWaitEventuallyReturns ==
  (IsWait /\ call.mgr = "container_task_instances")
    ~> ReturnedServersFinishStatus

\* A container wait that met the server in three different states and
\* returned the last.
C27_Witness ==
  /\ IsWait
  /\ call.mgr = "container_task_instances"
  /\ ReturnedServersFinishStatus
  /\ Len(responses) = 3
  /\ responses[1].json.state = CREATED
  /\ responses[2].json.state = RUNNING


(***************************************************************************)
(* Vocabulary of the properties of the client.                             *)
(***************************************************************************)
IsConstruction == call.op \in {"Client", "from_env"}

\* __init__ has been entered, and has been left.
ConstructionEntered == IsConstruction /\ "base_api_url" \in DOMAIN call

ConstructionOver == IsConstruction /\ pc \in {"returned", "raised"}

\* The header {'Authorization': 'Token ' + auth_token}, as the
\* specification gives it.
SpecTokenHeader(auth_token) == <<"Authorization", "Token ", auth_token>>

\* The resource families of the API, by the attribute a client would hold
\* the manager under.
SpecResourceFamilies ==
  {"task_queues", "task_whitelists", "users", "executable_task_types",
   "container_task_types", "executable_task_instances",
   "container_task_instances"}

(***************************************************************************)
(* C22.  A constructed Client holds one manager for every resource family  *)
(* of the API: task queues, task whitelists, users, executable and         *)
(* container task types, executable and container task instances.          *)
(***************************************************************************)
C22_ClientAggregatesEveryFamily ==
  (IsConstruction /\ pc = "returned") =>
    client.managers = SpecResourceFamilies

\* Every family but the task whitelists.
C22_EveryFamilyButWhitelists ==
  (IsConstruction /\ pc = "returned") =>
    client.managers = SpecResourceFamilies \ {"task_whitelists"}

(***************************************************************************)
(* C23.  Construction with test_if_authenticated true sends exactly one    *)
(* request, a GET to the users list URL carrying the token header, and     *)
(* fails with AuthenticationError if and only if the answer's status is    *)
(* not 200.  With test_if_authenticated false construction sends no        *)
(* request and does not fail.                                              *)
(***************************************************************************)
C23_AuthenticationProbe ==
  (ConstructionOver /\ ConstructionEntered) =>
    IF call.test_if_authenticated
    THEN /\ Len(log) = 1
         /\ Len(responses) = 1
         /\ log[1].method = "GET"
         /\ log[1].url = <<call.base_api_url, "users/">>
         /\ log[1].headers = SpecTokenHeader(call.auth_token)
         /\ (pc = "raised") <=> (responses[1].status # 200)
         /\ pc = "raised" => error.kind = "AuthenticationError"
    ELSE /\ log = <<>>
         /\ pc = "returned"
         /\ error = NoError

\* A probe answered 201 made the construction fail.
C23_Witness ==
  /\ call.op = "Client"
  /\ call.test_if_authenticated
  /\ pc = "raised"
  /\ error.kind = "AuthenticationError"
  /\ responses[1].status = 201

\* A probe answered 200.
C23_WitnessAuthenticated ==
  /\ call.op = "Client"
  /\ call.test_if_authenticated
  /\ pc = "returned"
  /\ responses[1].status = 200

\* A construction without probe.
C23_WitnessNoProbe ==
  /\ call.op = "Client"
  /\ ~call.test_if_authenticated
  /\ pc = "returned"
  /\ log = <<>>

(***************************************************************************)
(* C24.  Client.from_env raises BadEnvironmentError, sends no request and  *)
(* constructs no client if SALTANT_API_URL or SALTANT_AUTH_TOKEN is not    *)
(* set; if both are set it constructs the client from their values.        *)
(***************************************************************************)
C24_FromEnv ==
  (call.op = "from_env") =>
    IF environ.SALTANT_API_URL = Unset \/ environ.SALTANT_AUTH_TOKEN = Unset
    THEN /\ pc = "raised"
         /\ error.kind = "BadEnvironmentError"
         /\ log = <<>>
         /\ client = NoClient
    ELSE /\ client.base_api_url = environ.SALTANT_API_URL
         /\ client.headers = SpecTokenHeader(environ.SALTANT_AUTH_TOKEN[1])
         /\ call.default_timeout \in Timeouts
         /\ pc = "raised" => error.kind = "AuthenticationError"
         /\ pc \in {"returned", "requested"} =>
              /\ client.timeout = <<call.default_timeout>>
              /\ client.managers # {}

\* The token is missing.
C24_Witness ==
  /\ call.op = "from_env"
  /\ environ.SALTANT_API_URL # Unset
  /\ environ.SALTANT_AUTH_TOKEN = Unset
  /\ pc = "raised"
  /\ error.msg = <<"SALTANT_AUTH_TOKEN not defined!">>

\* Both are set and the client is constructed.
C24_WitnessConstructed ==
  /\ call.op = "from_env"
  /\ environ.SALTANT_AUTH_TOKEN = <<"token-b">>
  /\ pc = "returned"
  /\ client.headers = <<"Authorization", "Token ", "token-b">>

(***************************************************************************)
(* C30.  Client construction sets the token header, then sends the         *)
(* authentication probe (when enabled), then binds the default timeout to  *)
(* the session, then attaches the managers.  So a manager's request        *)
(* carries the token header and the timeout, the probe carries the token   *)
(* header and no timeout, and a failed probe leaves a client without       *)
(* managers.                                                               *)
(***************************************************************************)
\* The probe among the requests sent, if there is one.
ProbeSent == ConstructionEntered /\ call.test_if_authenticated /\ log # <<>>

C30_ConstructionOrder ==
  ConstructionEntered =>
    /\ client.headers = SpecTokenHeader(call.auth_token)
    /\ pc = "test_authentication" =>
         client.timeout = <<>> /\ client.managers = {}
    /\ (call.test_if_authenticated /\ client.timeout # <<>>) =>
         (Len(log) >= 1 /\ responses[1].status = 200)
    /\ client.managers # {} => client.timeout = <<call.default_timeout>>
    /\ ProbeSent =>
         /\ log[1].headers = SpecTokenHeader(call.auth_token)
         /\ log[1].timeout = <<>>
    /\ pc = "requested" =>
         /\ log[Len(log)].headers = SpecTokenHeader(call.auth_token)
         /\ log[Len(log)].timeout = <<call.default_timeout>>
    /\ (pc = "raised" /\ error.kind = "AuthenticationError") =>
         client.managers = {}

\* A probe was sent without timeout, and afterwards a manager's request
\* with the timeout of 30 seconds.
C30_Witness ==
  /\ call.op = "Client"
  /\ pc = "requested"
  /\ Len(log) = 2
  /\ log[1].timeout = <<>>
  /\ log[2].timeout = <<30>>
  /\ log[2].headers = log[1].headers

\* A failed probe.
C30_WitnessFailedProbe ==
  /\ call.op = "Client"
  /\ pc = "raised"
  /\ client.managers = {}
  /\ client.headers # <<>>

====
